---- MODULE Spec2Model ----
(***************************************************************************)
(* Model of the activity logger cog (activitylog.py): the backfill run     *)
(* (fetch_task), its progress callback (fetch_callback /                   *)
(* format_fetch_line), the single job slot (fetch_handle) with             *)
(* fetch_cancel and __unload, the table of log file handles (gethandle,    *)
(* LogHandle, log, should_log), the attachment download of message_handler *)
(* with process_attachment, the status edits (cookie_edit_task) and        *)
(* format_rotation_string.  All coroutines run on one event loop: a task   *)
(* is only ever observed by another handler at one of its await points.    *)
(*                                                                         *)
(* Spec          one backfill run, with the clock                          *)
(* SpecSlot      two backfill runs, fetch_cancel and __unload              *)
(* SpecHandles   live log calls on a handle table that is nearly full      *)
(* SpecRotation  format_rotation_string on the dates of a few years        *)
(* SpecAttachment process_attachment on ids and names of every length     *)
(* SpecGate      log as its callers call it, under any settings            *)
(* SpecFair      one backfill run scheduled fairly, the clock standing     *)
(* SpecEdits     one backfill run and the tasks that edit its status       *)
(***************************************************************************)
EXTENDS Integers, Sequences, FiniteSets, TLC

\* ---------------------------------------------------------------- bounds
MaxHist == 2        \* messages in one channel's history
PageLimit == 1      \* messages one history request yields at most
MaxTime == 4        \* seconds the clock may advance
FirstYear == 2023   \* years the rotated timestamps are drawn from
LastYear == 2024
MaxLog == 2         \* log calls of live events
MaxAge == 1         \* seconds that pass between live events
MaxIdLen == 20      \* characters of an attachment id
MaxNameLen == 260   \* characters of an attachment's original name
MaxEvents == 1      \* log calls that pass the gate of log

\* ------------------------------------------------------ program constants
EDIT_TIMEDELTA == 3

\* ------------------------------------------------------------ value sets
\* the runs (fetch commands) of one behaviour
Runs == {1}
ServerChannels == <<"c1", "c2">>
Channels == {ServerChannels[i] : i \in 1..Len(ServerChannels)}
None == -1
NoChannel == "none"
NoException == ""
AttachmentArgs == {"None", "True", "False"}

\* channel lists fetch_server can build: the readable text channels of the
\* server, in server order
ChannelLists ==
    { <<>>, <<ServerChannels[1]>>, <<ServerChannels[2]>>, ServerChannels }

\* FetchStatus
STARTING == "starting"
FETCHING == "fetching"
CANCELLED == "cancelled"
EXCEPTION == "exception"
COMPLETED == "completed"
FetchStatus == {STARTING, FETCHING, CANCELLED, EXCEPTION, COMPLETED}
Terminal == {CANCELLED, EXCEPTION, COMPLETED}

VARIABLES
    now,            \* datetime.now(), in seconds
    hist,           \* per channel: its messages, each "plain" or "attachment"
                    \* ("unknown" until the history source first delivers it)
    should_dl,      \* should_download() of the settings
    fetch_handle,   \* the slot: None or the task of a run
    pc,             \* per run: position of its task
    must_cancel,    \* per run: cancel() was called on the pending task
    future,         \* per run: state of the task as a Future
    task,           \* per run: locals of fetch_task
    cookie,         \* per run: its FetchCookie
    attFiles,       \* attachment files present under their final name
    events,         \* per run: progress events passed to status_cb
    edits,          \* per run: status texts handed to cookie_edit_task
    summaries,      \* per run: final summaries handed to send_message
    requests,       \* per run: history requests made (logs_from)
    written,        \* per run: messages passed to log
    reply,          \* what the last fetch_cancel said, and of which task
    rot,            \* format_rotation_string: its arguments and results
    lock,           \* self.lock: set by __unload
    handles,        \* self.handles: the table of open log files
    files,          \* the log files that exist: their lines and mtime
    issued,         \* per log call that reached gethandle: its path
    ret,            \* what the last log call or __unload did
    tmpFiles,       \* attachment files present under their temporary name
    transfers,      \* the attachment files a transfer was started for
    blocks,         \* per inode of the attachment folders: its content
    link,           \* per name in the attachment folders: its inode
    fd,             \* per run: the inode 'f' of message_handler is open on
    received,       \* the bodies r.read() returned, per attachment file
    att,            \* process_attachment: its arguments and results
    settings,       \* self.settings: what is to be logged
    event,          \* the last live event: the arguments of its log call
                    \* and the text handed to handle.write
    shown,          \* the messages the bot has sent to the command channel:
                    \* which status text each shows, whether it was deleted
    status_msg,     \* per run: cookie.status_msg
    etask           \* per run: the edit tasks that have started

\* the state of the backfill run and of the job slot
fetchVars == <<now, hist, should_dl, fetch_handle, pc, must_cancel, future,
               task, cookie, attFiles, events, edits, summaries, requests,
               written, reply, tmpFiles, transfers>>

vars == <<now, hist, should_dl, fetch_handle, pc, must_cancel, future, task,
          cookie, attFiles, events, edits, summaries, requests, written,
          reply, rot, lock, handles, files, issued, ret, tmpFiles,
          transfers, blocks, link, fd, received, att, settings, event,
          shown, status_msg, etask>>

\* the status message and the tasks that edit it
editVars == <<shown, status_msg, etask>>

\* the live event handlers and the attachment names
liveVars == <<att, settings, event>>

\* the attachment folders
diskVars == <<blocks, link, fd, received>>

\* the handle table and the log files
cacheVars == <<lock, handles, files, issued, ret>>

\* positions at which a task is suspended in an await (or does not run)
Suspended == {"unused", "new", "page", "get", "read", "done"}

\* the event loop runs one callback at a time: a handler or a task step
\* starts only when every task is at an await
LoopFree == \A r \in DOMAIN pc : pc[r] \in Suspended

\* ------------------------------------------------------------- helpers
RECURSIVE SeqsUpTo(_, _)
SeqsUpTo(S, n) ==
    IF n = 0 THEN { <<>> }
    ELSE LET shorter == SeqsUpTo(S, n - 1)
         IN  shorter \cup { Append(q, x) : q \in shorter, x \in S }

\* mutant of Remove: the channel is not taken out of the pending list
Remove_Nothing(list, x) == list

\* list.remove(x): drops the first occurrence of x
RECURSIVE Remove(_, _)
Remove(list, x) ==
    IF list = <<>> THEN <<>>
    ELSE IF Head(list) = x THEN Tail(list)
    ELSE <<Head(list)>> \o Remove(Tail(list), x)

Min(a, b) == IF a < b THEN a ELSE b

\* the history source: bot.logs_from(channel, after=cursor, reverse=True),
\* the messages strictly after the cursor, oldest first, one page of them
logs_from(channel, after) ==
    [i \in 1..(Min(Len(hist[channel]), after + PageLimit) - after) |-> after + i]

\* ------------------------------------------------------- FetchCookie
FetchCookie(start) ==
    [start |-> start, last_edit |-> None, total_messages |-> 0,
     completed_messages |-> <<>>]

\* ------------------------------------------------- status text lines
Line(channel, kind, count, exception) ==
    [channel |-> channel, kind |-> kind, count |-> count,
     exception |-> exception]

NoLine == Line(NoChannel, "none", None, NoException)

\* mutant of format_fetch_line: the error line carries no error description
format_fetch_line_NoError(ck, count, status, exception, channel) ==
    LET elapsed == now - (IF ck.last_edit # None THEN ck.last_edit
                                                 ELSE ck.start)
    IN  CASE status = STARTING  -> Line(channel, "initializing...", None, NoException)
          [] status = EXCEPTION -> Line(channel, "error after", count, NoException)
          [] status = CANCELLED -> Line(channel, "cancelled after", count, NoException)
          [] status = COMPLETED -> Line(channel, "fetched", count, NoException)
          [] status = FETCHING  ->
                IF elapsed > EDIT_TIMEDELTA
                THEN Line(channel, "retrieved so far...", count, NoException)
                ELSE NoLine

\* mutant of format_fetch_line: Fetching events are not throttled
format_fetch_line_Eager(ck, count, status, exception, channel) ==
    CASE status = STARTING  -> Line(channel, "initializing...", None, NoException)
      [] status = EXCEPTION -> Line(channel, "error after", count, exception)
      [] status = CANCELLED -> Line(channel, "cancelled after", count, NoException)
      [] status = COMPLETED -> Line(channel, "fetched", count, NoException)
      [] status = FETCHING  -> Line(channel, "retrieved so far...", count, NoException)

\* format_fetch_line: the line for the active channel, or NoLine (None)
format_fetch_line(ck, count, status, exception, channel) ==
    LET elapsed == now - (IF ck.last_edit # None THEN ck.last_edit
                                                 ELSE ck.start)
    IN  CASE status = STARTING  -> Line(channel, "initializing...", None, NoException)
          [] status = EXCEPTION -> Line(channel, "error after", count, exception)
          [] status = CANCELLED -> Line(channel, "cancelled after", count, NoException)
          [] status = COMPLETED -> Line(channel, "fetched", count, NoException)
          [] status = FETCHING  ->
                IF elapsed > EDIT_TIMEDELTA
                THEN Line(channel, "retrieved so far...", count, NoException)
                ELSE NoLine

\* fetch_callback: composes and schedules the status edit, keeps the
\* cookie's totals, schedules the final summary
fetch_callback(r, count, status, exception, channel, pending_channels) ==
    LET ck == cookie[r]
        format_line == format_fetch_line(ck, count, status, exception, channel)
        rows == ck.completed_messages \o <<format_line>> \o
                [i \in 1..Len(pending_channels) |->
                    Line(pending_channels[i], "pending", None, NoException)]
        ck1 == IF format_line # NoLine THEN [ck EXCEPT !.last_edit = now]
                                       ELSE ck
        ck2 == IF status = COMPLETED
               THEN [ck1 EXCEPT !.total_messages = @ + count,
                                !.completed_messages = Append(@, format_line)]
               ELSE ck1
    IN  /\ cookie' = [cookie EXCEPT ![r] = ck2]
        /\ edits' = [edits EXCEPT ![r] =
                IF format_line # NoLine
                THEN Append(@, [content |-> rows, event |-> Len(events[r]) + 1])
                ELSE @]
        /\ summaries' = [summaries EXCEPT ![r] =
                IF status = COMPLETED /\ pending_channels = <<>>
                THEN Append(@, ck2.total_messages)
                ELSE @]

\* update (closure of fetch_task): reports one progress event to status_cb
update(r, count, status, channel, exception, pending_channels) ==
    /\ fetch_callback(r, count, status, exception, channel, pending_channels)
    /\ events' = [events EXCEPT ![r] =
            Append(@, [channel |-> channel, status |-> status, count |-> count,
                       exception |-> exception])]

NoUpdate == UNCHANGED <<cookie, edits, summaries, events>>

\* ------------------------------------------------ format_rotation_string
\* a timestamp is a naive datetime: [year, month, day, hour]; a string is the
\* sequence of its characters
DaysPerWeek == 7
MonthsPerYear == 12
Hours == {0, 23}

IsLeap(year) ==
    year % 4 = 0 /\ (year % 100 # 0 \/ year % 400 = 0)

DaysInMonth(year, month) ==
    IF month = 2 THEN (IF IsLeap(year) THEN 29 ELSE 28)
    ELSE IF month \in {4, 6, 9, 11} THEN 30 ELSE 31

RECURSIVE DaysBeforeMonth(_, _)
DaysBeforeMonth(year, month) ==
    IF month = 1 THEN 0
    ELSE DaysBeforeMonth(year, month - 1) + DaysInMonth(year, month - 1)

DaysBeforeYear(year) ==
    LET y == year - 1
    IN  y * 365 + (y \div 4) - (y \div 100) + (y \div 400)

\* datetime.toordinal(): day 1 is 0001-01-01, a Monday
toordinal(timestamp) ==
    DaysBeforeYear(timestamp.year)
        + DaysBeforeMonth(timestamp.year, timestamp.month) + timestamp.day

\* datetime.weekday(): Monday is 0, Sunday is 6
weekday(timestamp) == (toordinal(timestamp) + 6) % DaysPerWeek

Timestamps(years) ==
    { [year |-> y, month |-> m, day |-> d, hour |-> h] :
        y \in years, m \in 1..MonthsPerYear, d \in 1..31, h \in Hours }
    \ { t \in [year : years, month : 1..MonthsPerYear, day : 29..31,
               hour : Hours] : t.day > DaysInMonth(t.year, t.month) }

RotationTimestamps == Timestamps(FirstYear..LastYear)

\* rotation codes set_rotation stores; "" is None (rotation disabled)
RotationCodes == {"", "d", "w", "m", "y"}

\* <<>> is the default filename=None
FileNames == { <<>>, <<"1", ".", "l", "o", "g">> }

DigitChars == <<"0", "1", "2", "3", "4", "5", "6", "7", "8", "9">>

\* '%0<width>d' % n
RECURSIVE Pad(_, _)
Pad(n, width) ==
    IF width = 0 THEN <<>>
    ELSE Pad(n \div 10, width - 1) \o <<DigitChars[(n % 10) + 1]>>

\* timestamp.strftime('%Y%m%d')
strftime(timestamp) ==
    Pad(timestamp.year, 4) \o Pad(timestamp.month, 2) \o Pad(timestamp.day, 2)

\* str.upper() of a rotation code
upper(c) ==
    CASE c = "d" -> "D" [] c = "w" -> "W" [] c = "m" -> "M" [] c = "y" -> "Y"
      [] OTHER -> c

Returned(value) == [raised |-> NoException, value |-> value]
Raised(exception) == [raised |-> exception, value |-> <<>>]

\* mutant of format_rotation_string: the monthly and yearly periods keep the
\* day of the timestamp
format_rotation_string_KeepDay(timestamp, rotation_code, filename) ==
    IF rotation_code = "" THEN Returned(filename)
    ELSE
      LET month == IF rotation_code = "y" THEN 1 ELSE timestamp.month
          day == IF rotation_code = "w"
                 THEN timestamp.day - weekday(timestamp)
                 ELSE timestamp.day
      IN  IF day \notin 1..DaysInMonth(timestamp.year, month)
          THEN Raised("ValueError: day is out of range for month")
          ELSE
            LET start == [timestamp EXCEPT !.day = day, !.month = month,
                                           !.hour = 0]
                spec == strftime(start) \o
                        (IF rotation_code = "w"
                         THEN <<"-", "-", "P", "7", "D">>
                         ELSE <<"-", "-", "P", "1", upper(rotation_code)>>)
            IN  Returned(IF filename # <<>> THEN spec \o <<"_">> \o filename
                                            ELSE spec)

\* format_rotation_string; timestamp.replace(day=...) raises ValueError for
\* a day that is not a day of the month
format_rotation_string(timestamp, rotation_code, filename) ==
    IF rotation_code = "" THEN Returned(filename)
    ELSE
      LET month == IF rotation_code = "y" THEN 1 ELSE timestamp.month
          day == IF rotation_code \in {"y", "m"} THEN 1
                 ELSE IF rotation_code = "w"
                      THEN timestamp.day - weekday(timestamp)
                      ELSE timestamp.day
      IN  IF day \notin 1..DaysInMonth(timestamp.year, month)
          THEN Raised("ValueError: day is out of range for month")
          ELSE
            LET start == [timestamp EXCEPT !.day = day, !.month = month,
                                           !.hour = 0]
                spec == strftime(start) \o
                        (IF rotation_code = "w"
                         THEN <<"-", "-", "P", "7", "D">>
                         ELSE <<"-", "-", "P", "1", upper(rotation_code)>>)
            IN  Returned(IF filename # <<>> THEN spec \o <<"_">> \o filename
                                            ELSE spec)

\* rot before format_rotation_string is applied
NoRotation ==
    [called |-> FALSE,
     timestamp |-> [year |-> FirstYear, month |-> 1, day |-> 1, hour |-> 0],
     other |-> [year |-> FirstYear, month |-> 1, day |-> 1, hour |-> 0],
     rotation_code |-> "", filename |-> <<>>,
     out |-> Returned(<<>>), out2 |-> Returned(<<>>)]

\* ---------------------------------------------- process_attachment
\* the longest file name process_attachment lets through unchanged
MaxFileName == 255

\* characters: those of an id and of a name carry their position, so that
\* every prefix and suffix is told apart
IdChar(k) == <<"i", k>>
NameChar(k) == <<"n", k>>
Underscore == <<"_", 0>>
Dot == <<".", 0>>
Ellipsis == <<Dot, Dot, Dot>>

\* a['id'] is a snowflake, the decimal digits of a 64 bit integer;
\* a['filename'] is any name
AttachmentIds == { [k \in 1..n |-> IdChar(k)] : n \in 1..MaxIdLen }
AttachmentNames == { [k \in 1..n |-> NameChar(k)] : n \in 0..MaxNameLen }

\* a slice index of Python on a sequence of length n
PyIndex(i, n) ==
    IF i < 0 THEN (IF n + i < 0 THEN 0 ELSE n + i)
             ELSE (IF i > n THEN n ELSE i)

\* s[start:stop]
Slice(s, start, stop) ==
    SubSeq(s, PyIndex(start, Len(s)) + 1, PyIndex(stop, Len(s)))

\* mutant of process_attachment: the kept suffix is one character longer
process_attachment_LongSuffix(aid, aname) ==
    LET filename == aid \o <<Underscore>> \o aname
        target_len == MaxFileName - Len(aid) - 4
        part_a == target_len \div 2
        part_b == target_len - part_a + 1
    IN  IF Len(filename) > MaxFileName
        THEN [filename |-> aid \o <<Underscore>> \o Slice(aname, 0, part_a)
                              \o Ellipsis
                              \o Slice(aname, 0 - part_b, Len(aname)),
              truncated |-> TRUE]
        ELSE [filename |-> filename, truncated |-> FALSE]

\* process_attachment: the file name and the truncated flag it returns
process_attachment(aid, aname) ==
    LET filename == aid \o <<Underscore>> \o aname
        target_len == MaxFileName - Len(aid) - 4
        part_a == target_len \div 2
        part_b == target_len - part_a
    IN  IF Len(filename) > MaxFileName
        THEN [filename |-> aid \o <<Underscore>> \o Slice(aname, 0, part_a)
                              \o Ellipsis
                              \o Slice(aname, 0 - part_b, Len(aname)),
              truncated |-> TRUE]
        ELSE [filename |-> filename, truncated |-> FALSE]

\* att before process_attachment is applied
NoAttachment ==
    [called |-> FALSE, aid |-> <<>>, aname |-> <<>>, filename |-> <<>>,
     truncated |-> FALSE]

\* ------------------------------------------------------- the settings
\* an optional key of the settings: missing, or set to on or off
Opt == {"unset", "on", "off"}

\* dict.get(key, default) of an optional key
Get(opt, default) == IF opt = "unset" THEN default ELSE opt = "on"

\* self.settings[server.id] is missing
NoServer ==
    [present |-> FALSE, all |-> "unset", events |-> "unset",
     voice |-> "unset", c1 |-> "unset", v1 |-> "unset"]

\* self.settings[server.id] as the logset commands can leave it
ServerEntries ==
    { NoServer,
      [NoServer EXCEPT !.present = TRUE],
      [NoServer EXCEPT !.present = TRUE, !.all = "on"],
      [NoServer EXCEPT !.present = TRUE, !.all = "off", !.c1 = "on"],
      [NoServer EXCEPT !.present = TRUE, !.events = "on"],
      [NoServer EXCEPT !.present = TRUE, !.events = "off", !.c1 = "off"],
      [NoServer EXCEPT !.present = TRUE, !.voice = "on"],
      [NoServer EXCEPT !.present = TRUE, !.v1 = "on", !.voice = "off"] }

Settings ==
    [everything : {"on", "off"}, default : {"on", "off"}, direct : Opt,
     server : ServerEntries]

\* settings.json as check_files writes it
DefaultSettings ==
    [everything |-> "off", default |-> "off", direct |-> "unset",
     server |-> NoServer]

\* what log is called for: the server, a text channel, a voice channel, a
\* private channel, and something that is none of these
Locations ==
    { [type |-> "Server", id |-> "s1", voice |-> FALSE],
      [type |-> "Channel", id |-> "c1", voice |-> FALSE],
      [type |-> "Channel", id |-> "v1", voice |-> TRUE],
      [type |-> "PrivateChannel", id |-> "p1", voice |-> FALSE],
      [type |-> "User", id |-> "u1", voice |-> FALSE] }

\* should_log: None counts as False where log uses it
should_log(S, location) ==
    IF S.everything = "on" THEN TRUE
    ELSE LET default == S.default = "on"
             loc == S.server
         IN  CASE location.type = "Server" ->
                    /\ loc.present
                    /\ Get(loc.all, FALSE) \/ Get(loc.events, default)
               [] location.type = "Channel" ->
                    /\ loc.present
                    /\ \/ Get(loc.all, FALSE)
                       \/ Get(loc[location.id], default)
                       \/ location.voice /\ Get(loc.voice, FALSE)
               [] location.type = "PrivateChannel" -> Get(S.direct, default)
               [] OTHER -> FALSE

\* the characters of a text
Newline == "\n"
Backslash == "\\"
Space == " "

\* the texts of the live events
Texts ==
    { <<"a">>, <<Newline>>, <<"a", Newline, "b", Newline>>,
      <<Backslash, "n">> }

\* mutant of Escaped: the text is left as it is
Escaped_Not(text) == text

\* text.replace('\n', '\\n')
RECURSIVE Escaped(_)
Escaped(text) ==
    IF text = <<>> THEN <<>>
    ELSE (IF Head(text) = Newline THEN <<Backslash, "n">>
                                  ELSE <<Head(text)>>) \o Escaped(Tail(text))

\* timestamp.strftime(TIMESTAMP_FORMAT), the timestamp t seconds into
\* the first day of FirstYear
LogStamp(t) ==
    Pad(FirstYear, 4) \o <<"-">> \o Pad(1, 2) \o <<"-">> \o Pad(1, 2)
        \o <<Space>> \o Pad(0, 2) \o <<":">> \o Pad(0, 2) \o <<":">>
        \o Pad(t, 2)

\* '#' + location.name: the name of a voice channel may hold a space
ChannelName(location) ==
    IF location.voice THEN <<"#", "v", Space, "1">> ELSE <<"#", "c", "1">>

\* ' '.join(entry) + '\n'
LogLine(t, location, text) ==
    LogStamp(t) \o <<Space>>
        \o (IF location.type = "Channel"
            THEN ChannelName(location) \o <<Space>> ELSE <<>>)
        \o Escaped(text) \o <<Newline>>

\* the location types log has a path for
LogTypes == {"Server", "Channel", "PrivateChannel"}

\* event before any live event
NoEvent ==
    [location |-> [type |-> "User", id |-> "u1", voice |-> FALSE],
     text |-> <<>>, force |-> FALSE, entry |-> <<>>]

\* ------------------------------------------------ the handle table
\* self.handles is a dict: a sequence of entries in insertion order, one per
\* path; an entry is a LogHandle: [path, time, open, locked].  A path is the
\* number of a log file: 1..Len(ServerChannels) are the logs of the channels,
\* the next Len(ServerChannels) the logs a backfill run writes below its
\* subfolder, the rest the logs of other locations.
MaxHandles == 256
FetchSubfolder == "fetch"

IndexOf(list, x) == CHOOSE i \in 1..Len(list) : list[i] = x


\* os.path.join(*path) in log
LogPath(channel, subfolder) ==
    IndexOf(ServerChannels, channel)
        + (IF subfolder = "" THEN 0 ELSE Len(ServerChannels))

\* os.path.join(*path) in log for the locations of the live events
LocationPath(location) ==
    CASE location.id = "c1" -> LogPath("c1", "")
      [] location.id = "s1" -> 2 * Len(ServerChannels) + 1
      [] location.id = "v1" -> 2 * Len(ServerChannels) + 2
      [] OTHER -> 2 * Len(ServerChannels) + 3

\* what the file system does to one call: the directory cannot be made or
\* the file cannot be opened; close() of a handle raises
Env == [open_fails : BOOLEAN, close_fails : BOOLEAN]

Has(T, path) == \E i \in 1..Len(T) : T[i].path = path
At(T, path) == CHOOSE i \in 1..Len(T) : T[i].path = path
Del(T, i) == SubSeq(T, 1, i - 1) \o SubSeq(T, i + 1, Len(T))

\* the first position (in dict order) of an entry whose time is t
First(T, t) ==
    CHOOSE i \in 1..Len(T) :
        T[i].time = t /\ \A j \in 1..(i - 1) : T[j].time # t

\* mutant of Oldest: the entry written last
Oldest_Newest(T) ==
    LET times == { T[j].time : j \in 1..Len(T) }
    IN  First(T, CHOOSE t \in times : \A u \in times : t >= u)

\* sorted(self.handles.items(), key=lambda x: x[1].time)[0]: the sort is
\* stable, so among the entries of least time the first of the dict
Oldest(T) ==
    LET times == { T[j].time : j \in 1..Len(T) }
    IN  First(T, CHOOSE t \in times : \A u \in times : t <= u)

\* mutant of Cull: nothing is evicted
Cull_Never(T, env) ==
    [raised |-> NoException, handles |-> T, closed |-> {}, failed |-> {}]

\* gethandle, 'clean up excess handles before creating a new one'; a close()
\* that raises leaves the file object closed and ends gethandle
Cull(T, env) ==
    IF Len(T) < MaxHandles
    THEN [raised |-> NoException, handles |-> T, closed |-> {},
          failed |-> {}]
    ELSE LET i == Oldest(T)
         IN  IF env.close_fails
             THEN [raised |-> "OSError: close",
                   handles |-> [T EXCEPT ![i].open = FALSE],
                   closed |-> {T[i].path}, failed |-> {T[i].path}]
             ELSE [raised |-> NoException, handles |-> Del(T, i),
                   closed |-> {T[i].path}, failed |-> {}]

\* open(path, 'a', 1): the file is created when it is not there
Touch(F, path) ==
    IF path \in DOMAIN F THEN F
    ELSE [p \in DOMAIN F \cup {path} |->
             IF p = path THEN [lines |-> <<>>, mtime |-> now] ELSE F[p]]

\* LogHandle.__init__ with time=None: the time is the mtime of the file
LogHandle(path, F) ==
    [path |-> path, time |-> F[path].mtime, open |-> TRUE, locked |-> FALSE]

\* mutant of Open: the entry is stored before the file is opened
Open_EntryFirst(T, F, path, env) ==
    IF env.open_fails
    THEN [raised |-> "OSError: open",
          handles |-> Append(T, [path |-> path, time |-> now,
                                 open |-> FALSE, locked |-> FALSE]),
          files |-> F]
    ELSE [raised |-> NoException,
          handles |-> Append(T, LogHandle(path, Touch(F, path))),
          files |-> Touch(F, path)]

\* gethandle: makedirs, LogHandle(path, mode=mode), self.handles[path] = handle
Open(T, F, path, env) ==
    IF env.open_fails
    THEN [raised |-> "OSError: open", handles |-> T, files |-> F]
    ELSE [raised |-> NoException,
          handles |-> Append(T, LogHandle(path, Touch(F, path))),
          files |-> Touch(F, path)]

\* mutant of Stale: a cached entry is never taken for stale
Stale_Never(T, F, path) == FALSE

\* gethandle: path in self.handles and not os.path.exists(path)
Stale(T, F, path) == Has(T, path) /\ path \notin DOMAIN F

\* gethandle(path) on the table T and the files F: whether it raised, the
\* table and the files after it, the paths whose handle it closed and those
\* whose close() raised
RECURSIVE gethandle(_, _, _, _)
gethandle(T, F, path, env) ==
    IF Has(T, path)
    THEN IF ~Stale(T, F, path)
         THEN [raised |-> NoException, handles |-> T, files |-> F,
               closed |-> {}, failed |-> {}]
         ELSE \* close() in try/except, del, self.gethandle(path, mode)
              LET g == gethandle(Del(T, At(T, path)), F, path, env)
              IN  [g EXCEPT !.closed = @ \cup {path},
                            !.failed = IF env.close_fails THEN @ \cup {path}
                                                          ELSE @]
    ELSE LET c == Cull(T, env)
         IN  IF c.raised # NoException
             THEN [raised |-> c.raised, handles |-> c.handles, files |-> F,
                   closed |-> c.closed, failed |-> c.failed]
             ELSE LET o == Open(c.handles, F, path, env)
                  IN  [raised |-> o.raised, handles |-> o.handles,
                       files |-> o.files, closed |-> c.closed,
                       failed |-> c.failed]

\* ret before any call
NoRet ==
    [op |-> "none", path |-> None, line |-> None, raised |-> NoException,
     closed |-> {}, failed |-> {}, waited |-> FALSE]

\* mutant of Written: the line is put in front of the lines of the file
Written_InFront(F, path, line) ==
    IF path \notin DOMAIN F THEN F
    ELSE [F EXCEPT ![path] = [lines |-> <<line>> \o @.lines, mtime |-> now]]

\* self.handle.write(value) through a handle opened for appending: a line
\* written through a handle whose file was unlinked is in no file
Written(F, path, line) ==
    IF path \notin DOMAIN F THEN F
    ELSE [F EXCEPT ![path] = [lines |-> Append(@.lines, line), mtime |-> now]]

\* log from 'fname = os.path.join(*path)' on: gethandle, then handle.write,
\* which takes the lock of the handle, sets its time and writes the line.
\* The result: table and files after the call and what the call did
LogCall(path, env) ==
    LET line == Len(issued) + 1
        g == gethandle(handles, files, path, env)
        done == [handles |-> g.handles, files |-> g.files,
                 ret |-> [op |-> "log", path |-> path, line |-> line,
                          raised |-> g.raised, closed |-> g.closed,
                          failed |-> g.failed, waited |-> FALSE]]
    IN  IF g.raised # NoException THEN done
        ELSE LET i == At(g.handles, path)
                 stamped == [g.handles EXCEPT ![i].time = now]
             IN  IF g.handles[i].locked
                 THEN [done EXCEPT !.ret.waited = TRUE]
                 ELSE IF ~g.handles[i].open
                 THEN [done EXCEPT
                          !.handles = stamped,
                          !.ret.raised = "ValueError: I/O operation on closed file"]
                 ELSE [done EXCEPT !.handles = stamped,
                                   !.files = Written(g.files, path, line)]

\* the call of log as a step: issued records, per line, the path it is for
log(path, env) ==
    LET call == LogCall(path, env)
    IN  /\ issued' = Append(issued, path)
        /\ handles' = call.handles
        /\ files' = call.files
        /\ ret' = call.ret

\* --------------------------------------------------------------- Init
NewTask ==
    [channels |-> <<>>, attachments |-> "None", position |-> 0,
     channel |-> NoChannel, completed_channels |-> <<>>,
     pending_channels |-> <<>>, count |-> None, last_count |-> None,
     fetch_begin |-> None, buffer |-> <<>>, message |-> None]

\* the state after __init__, the channel histories left open
Idle(R) ==
    /\ now = 0
    /\ should_dl = FALSE      \* settings as first created: 'attachments' off
    /\ fetch_handle = None
    /\ pc = [r \in R |-> "unused"]
    /\ must_cancel = [r \in R |-> FALSE]
    /\ future = [r \in R |-> "none"]
    /\ task = [r \in R |-> NewTask]
    /\ cookie = [r \in R |-> FetchCookie(0)]
    /\ attFiles = {}
    /\ events = [r \in R |-> <<>>]
    /\ edits = [r \in R |-> <<>>]
    /\ summaries = [r \in R |-> <<>>]
    /\ requests = [r \in R |-> <<>>]
    /\ written = [r \in R |-> <<>>]
    /\ reply = [text |-> "", task |-> "none"]
    /\ tmpFiles = {}
    /\ transfers = <<>>
    /\ blocks = <<>>
    /\ link = <<>>
    /\ fd = [r \in R |-> None]
    /\ received = {}
    /\ shown = <<>>
    /\ status_msg = [r \in R |-> None]
    /\ etask = [r \in R |-> <<>>]

InitIdle == Idle(Runs)

InitFetch ==
    /\ InitIdle
    /\ hist \in [Channels -> SeqsUpTo({"unknown"}, MaxHist)]

\* self.handles = {}, self.lock = False; no log file exists yet
InitCache ==
    /\ lock = FALSE
    /\ handles = <<>>
    /\ files = <<>>
    /\ issued = <<>>
    /\ ret = NoRet

\* no live event yet, no attachment name asked for, settings.json as
\* check_files writes it
InitLive ==
    /\ att = NoAttachment
    /\ settings = DefaultSettings
    /\ event = NoEvent

Init ==
    /\ InitFetch
    /\ InitCache
    /\ InitLive
    /\ rot = NoRotation

\* -------------------------------------------------- the fetch commands
\* mutant of Dispatch: the run found in the slot is cancelled
Dispatch_CancelPrevious(r, channels, attachments) ==
    /\ LoopFree
    /\ pc[r] = "unused"
    /\ ~lock
    /\ \A q \in DOMAIN pc : q < r => pc[q] # "unused"
    /\ cookie' = [cookie EXCEPT ![r] = FetchCookie(now)]
    /\ task' = [task EXCEPT ![r] = [NewTask EXCEPT !.channels = channels,
                                                  !.attachments = attachments]]
    /\ pc' = [pc EXCEPT ![r] = "new"]
    /\ future' = [future EXCEPT ![r] = "pending"]
    /\ fetch_handle' = r
    /\ shown' = Append(shown, [content |-> [run |-> r, edit |-> 0],
                                deleted |-> FALSE])
    /\ status_msg' = [status_msg EXCEPT ![r] = Len(shown) + 1]
    /\ UNCHANGED etask
    /\ must_cancel' = [q \in DOMAIN pc |->
            IF q = fetch_handle /\ future[q] = "pending" THEN TRUE
                                                          ELSE must_cancel[q]]
    /\ UNCHANGED <<now, hist, should_dl, attFiles, events, edits,
                   summaries, requests, written, reply>>
    /\ UNCHANGED rot
    /\ UNCHANGED cacheVars
    /\ UNCHANGED <<tmpFiles, transfers>>
    /\ UNCHANGED diskVars
    /\ UNCHANGED liveVars

\* fetch_channel / fetch_server once 'Dispatching fetch task...' was said:
\* the status message is there (content 0); cookie, task, slot
Dispatch(r, channels, attachments) ==
    /\ LoopFree
    /\ pc[r] = "unused"
    /\ ~lock
    /\ \A q \in DOMAIN pc : q < r => pc[q] # "unused"
    /\ cookie' = [cookie EXCEPT ![r] = FetchCookie(now)]
    /\ task' = [task EXCEPT ![r] = [NewTask EXCEPT !.channels = channels,
                                                  !.attachments = attachments]]
    /\ pc' = [pc EXCEPT ![r] = "new"]
    /\ future' = [future EXCEPT ![r] = "pending"]
    /\ fetch_handle' = r
    /\ shown' = Append(shown, [content |-> [run |-> r, edit |-> 0],
                                deleted |-> FALSE])
    /\ status_msg' = [status_msg EXCEPT ![r] = Len(shown) + 1]
    /\ UNCHANGED etask
    /\ UNCHANGED <<now, hist, should_dl, must_cancel, attFiles, events, edits,
                   summaries, requests, written, reply>>
    /\ UNCHANGED rot
    /\ UNCHANGED cacheVars
    /\ UNCHANGED <<tmpFiles, transfers>>
    /\ UNCHANGED diskVars
    /\ UNCHANGED liveVars

fetch_channel(r) ==
    \E channel \in Channels, attachments \in AttachmentArgs :
        Dispatch(r, <<channel>>, attachments)

fetch_server(r) ==
    \E channels \in ChannelLists, attachments \in AttachmentArgs :
        Dispatch(r, channels, attachments)

\* fetch_cancel; reply.task records the state of the task found in the slot
fetch_cancel ==
    /\ LoopFree
    /\ ~lock
    /\ IF fetch_handle # None /\ future[fetch_handle] # "cancelled"
       THEN /\ must_cancel' = [must_cancel EXCEPT ![fetch_handle] =
                                    (future[fetch_handle] = "pending")]
            /\ fetch_handle' = None
            /\ reply' = [text |-> "Fetch cancelled.",
                         task |-> future[fetch_handle]]
       ELSE /\ reply' = [text |-> "Nothing to cancel.",
                         task |-> IF fetch_handle = None THEN "none"
                                  ELSE future[fetch_handle]]
            /\ UNCHANGED <<must_cancel, fetch_handle>>
    /\ UNCHANGED <<now, hist, should_dl, pc, future, task, cookie, attFiles,
                   events, edits, summaries, requests, written>>
    /\ UNCHANGED rot
    /\ UNCHANGED cacheVars
    /\ UNCHANGED <<tmpFiles, transfers>>
    /\ UNCHANGED diskVars
    /\ UNCHANGED liveVars
    /\ UNCHANGED editVars

\* ------------------------------------------------------------ fetch_task
\* first step of the task: a cancel() before it makes the coroutine end in
\* CancelledError before its first statement
TaskStart(r) ==
    /\ LoopFree
    /\ pc[r] = "new"
    /\ IF must_cancel[r]
       THEN /\ pc' = [pc EXCEPT ![r] = "done"]
            /\ future' = [future EXCEPT ![r] = "cancelled"]
            /\ must_cancel' = [must_cancel EXCEPT ![r] = FALSE]
            /\ UNCHANGED task
       ELSE /\ pc' = [pc EXCEPT ![r] = "for"]
            /\ task' = [task EXCEPT ![r].channel = NoChannel,
                                    ![r].completed_channels = <<>>,
                                    ![r].pending_channels = task[r].channels]
            /\ UNCHANGED <<future, must_cancel>>
    /\ NoUpdate
    /\ UNCHANGED <<now, hist, should_dl, fetch_handle, attFiles, requests,
                   written, reply>>
    /\ UNCHANGED rot
    /\ UNCHANGED cacheVars
    /\ UNCHANGED <<tmpFiles, transfers>>
    /\ UNCHANGED diskVars
    /\ UNCHANGED liveVars
    /\ UNCHANGED editVars

\* mutant of ForNext: the channel list is walked from its end
ForNext_Reverse(r) ==
    /\ pc[r] = "for"
    /\ LET t == task[r] IN
       IF t.position = Len(t.channels)
       THEN /\ pc' = [pc EXCEPT ![r] = "done"]
            /\ future' = [future EXCEPT ![r] = "finished"]
            /\ NoUpdate
            /\ UNCHANGED task
       ELSE LET channel == t.channels[Len(t.channels) - t.position]
                pending == Remove(t.pending_channels, channel)
            IN  /\ task' = [task EXCEPT ![r].position = @ + 1,
                                        ![r].channel = channel,
                                        ![r].pending_channels = pending,
                                        ![r].count = 0,
                                        ![r].fetch_begin = 0]
                /\ update(r, 0, STARTING, channel, NoException, pending)
                /\ pc' = [pc EXCEPT ![r] = "while"]
                /\ UNCHANGED future
    /\ UNCHANGED <<now, hist, should_dl, fetch_handle, must_cancel, attFiles,
                   requests, written, reply>>
    /\ UNCHANGED rot
    /\ UNCHANGED cacheVars
    /\ UNCHANGED <<tmpFiles, transfers>>
    /\ UNCHANGED diskVars
    /\ UNCHANGED liveVars
    /\ UNCHANGED editVars

\* for channel in channels: the next channel starts, or the task returns
ForNext(r) ==
    /\ pc[r] = "for"
    /\ LET t == task[r] IN
       IF t.position = Len(t.channels)
       THEN /\ pc' = [pc EXCEPT ![r] = "done"]
            /\ future' = [future EXCEPT ![r] = "finished"]
            /\ NoUpdate
            /\ UNCHANGED task
       ELSE LET channel == t.channels[t.position + 1]
                pending == Remove(t.pending_channels, channel)
            IN  /\ task' = [task EXCEPT ![r].position = @ + 1,
                                        ![r].channel = channel,
                                        ![r].pending_channels = pending,
                                        ![r].count = 0,
                                        ![r].fetch_begin = 0]
                /\ update(r, 0, STARTING, channel, NoException, pending)
                /\ pc' = [pc EXCEPT ![r] = "while"]
                /\ UNCHANGED future
    /\ UNCHANGED <<now, hist, should_dl, fetch_handle, must_cancel, attFiles,
                   requests, written, reply>>
    /\ UNCHANGED rot
    /\ UNCHANGED cacheVars
    /\ UNCHANGED <<tmpFiles, transfers>>
    /\ UNCHANGED diskVars
    /\ UNCHANGED liveVars
    /\ UNCHANGED editVars

\* while True: last_count = count; the history request is issued
WhileTop(r) ==
    /\ pc[r] = "while"
    /\ task' = [task EXCEPT ![r].last_count = task[r].count]
    /\ requests' = [requests EXCEPT ![r] =
            Append(@, [channel |-> task[r].channel,
                       after |-> task[r].fetch_begin, yielded |-> None])]
    /\ pc' = [pc EXCEPT ![r] = "page"]
    /\ NoUpdate
    /\ UNCHANGED <<now, hist, should_dl, fetch_handle, must_cancel, future,
                   attFiles, written, reply>>
    /\ UNCHANGED rot
    /\ UNCHANGED cacheVars
    /\ UNCHANGED <<tmpFiles, transfers>>
    /\ UNCHANGED diskVars
    /\ UNCHANGED liveVars
    /\ UNCHANGED editVars

\* except Exception as e: update(..., EXCEPTION, ...); raise
Raise(r, e) ==
    /\ update(r, task[r].count, EXCEPTION, task[r].channel, e,
              task[r].pending_channels)
    /\ pc' = [pc EXCEPT ![r] = "done"]
    /\ future' = [future EXCEPT ![r] = "exception"]

\* an exception leaves 'with open(tmp_path, 'wb') as f': f is closed
Closed(r) ==
    /\ fd' = [fd EXCEPT ![r] = None]
    /\ UNCHANGED <<blocks, link, received>>

\* mutant of Cancelled: the cancellation is caught inside the channel loop,
\* which goes on with the next channel
Cancelled_Continue(r) ==
    /\ LoopFree
    /\ pc[r] \in {"page", "get", "read"}
    /\ must_cancel[r]
    /\ update(r, task[r].count, CANCELLED, task[r].channel, NoException,
              task[r].pending_channels)
    /\ pc' = [pc EXCEPT ![r] = "for"]
    /\ must_cancel' = [must_cancel EXCEPT ![r] = FALSE]
    /\ UNCHANGED <<now, hist, should_dl, fetch_handle, future, task, attFiles,
                   requests, written, reply>>
    /\ UNCHANGED rot
    /\ UNCHANGED cacheVars
    /\ UNCHANGED <<tmpFiles, transfers>>
    /\ Closed(r)
    /\ UNCHANGED liveVars
    /\ UNCHANGED editVars

\* except asyncio.CancelledError: the pending cancel() is delivered at the
\* await the task is suspended in
Cancelled(r) ==
    /\ LoopFree
    /\ pc[r] \in {"page", "get", "read"}
    /\ must_cancel[r]
    /\ update(r, task[r].count, CANCELLED, task[r].channel, NoException,
              task[r].pending_channels)
    /\ pc' = [pc EXCEPT ![r] = "done"]
    /\ future' = [future EXCEPT ![r] = "finished"]
    /\ must_cancel' = [must_cancel EXCEPT ![r] = FALSE]
    /\ UNCHANGED <<now, hist, should_dl, fetch_handle, task, attFiles,
                   requests, written, reply>>
    /\ UNCHANGED rot
    /\ UNCHANGED cacheVars
    /\ UNCHANGED <<tmpFiles, transfers>>
    /\ Closed(r)
    /\ UNCHANGED liveVars
    /\ UNCHANGED editVars

\* what a message turns out to be when the history source delivers it
Delivered(h, page) ==
    LET paged == { page[j] : j \in 1..Len(page) }
    IN  { g \in [1..Len(h) -> {"unknown", "plain", "attachment"}] :
            \A i \in 1..Len(h) :
                IF h[i] = "unknown" /\ i \in paged
                THEN g[i] # "unknown" ELSE g[i] = h[i] }

\* the history request answers with a page of messages
PageResponse(r) ==
    /\ LoopFree
    /\ pc[r] = "page"
    /\ ~must_cancel[r]
    /\ LET page == logs_from(task[r].channel, task[r].fetch_begin)
       IN  /\ task' = [task EXCEPT ![r].buffer = page]
           /\ requests' = [requests EXCEPT ![r][Len(requests[r])].yielded =
                                Len(page)]
           /\ \E h \in Delivered(hist[task[r].channel], page) :
                hist' = [hist EXCEPT ![task[r].channel] = h]
    /\ pc' = [pc EXCEPT ![r] = "iter"]
    /\ NoUpdate
    /\ UNCHANGED <<now, should_dl, fetch_handle, must_cancel, future,
                   attFiles, written, reply>>
    /\ UNCHANGED rot
    /\ UNCHANGED cacheVars
    /\ UNCHANGED <<tmpFiles, transfers>>
    /\ UNCHANGED diskVars
    /\ UNCHANGED liveVars
    /\ UNCHANGED editVars

\* the history request fails
PageError(r) ==
    /\ LoopFree
    /\ pc[r] = "page"
    /\ ~must_cancel[r]
    /\ Raise(r, "HTTPException: history")
    /\ UNCHANGED <<now, hist, should_dl, fetch_handle, must_cancel, task,
                   attFiles, requests, written, reply>>
    /\ UNCHANGED rot
    /\ UNCHANGED cacheVars
    /\ UNCHANGED <<tmpFiles, transfers>>
    /\ UNCHANGED diskVars
    /\ UNCHANGED liveVars
    /\ UNCHANGED editVars

\* dl_attachment of message_handler
dl_attachment(r) ==
    IF task[r].attachments # "None" THEN task[r].attachments = "True"
                                    ELSE should_dl

\* async for message in ...: await self.message_handler(message, ...), up
\* to its first await: the log line is written, the download starts unless
\* the file is already there
MessageHandler(r) ==
    /\ pc[r] = "iter"
    /\ task[r].buffer # <<>>
    /\ LET t == task[r]
           message == Head(t.buffer)
           download == hist[t.channel][message] = "attachment" /\ dl_attachment(r)
           path == LogPath(t.channel, FetchSubfolder)
       IN  /\ IF lock
              THEN UNCHANGED <<handles, files, issued, ret, written>>
              ELSE /\ \E env \in Env :
                        /\ LogCall(path, env).ret.raised = NoException
                        /\ ~LogCall(path, env).ret.waited
                        /\ log(path, env)
                   /\ written' = [written EXCEPT ![r] =
                         Append(@, [channel |-> t.channel, message |-> message])]
           /\ task' = [task EXCEPT ![r].message = message,
                                   ![r].buffer = Tail(t.buffer)]
           /\ pc' = [pc EXCEPT ![r] =
                    IF download /\ <<t.channel, message>> \notin attFiles
                    THEN "get" ELSE "post"]
           /\ transfers' =
                    IF download /\ <<t.channel, message>> \notin attFiles
                    THEN Append(transfers, <<t.channel, message>>)
                    ELSE transfers
    /\ NoUpdate
    /\ UNCHANGED <<now, hist, should_dl, fetch_handle, must_cancel, future,
                   attFiles, requests, reply>>
    /\ UNCHANGED <<rot, lock, tmpFiles>>
    /\ UNCHANGED diskVars
    /\ UNCHANGED liveVars
    /\ UNCHANGED editVars

\* self.log raises: gethandle cannot create the directory or open the file,
\* or closing the evicted handle fails
LogError(r) ==
    /\ pc[r] = "iter"
    /\ task[r].buffer # <<>>
    /\ ~lock
    /\ task' = [task EXCEPT ![r].message = Head(task[r].buffer),
                            ![r].buffer = Tail(task[r].buffer)]
    /\ \E env \in Env :
         LET path == LogPath(task[r].channel, FetchSubfolder)
         IN  /\ LogCall(path, env).ret.raised # NoException
             /\ log(path, env)
             /\ Raise(r, LogCall(path, env).ret.raised)
    /\ UNCHANGED <<now, hist, should_dl, fetch_handle, must_cancel, attFiles,
                   requests, written, reply>>
    /\ UNCHANGED <<rot, lock>>
    /\ UNCHANGED <<tmpFiles, transfers>>
    /\ UNCHANGED diskVars
    /\ UNCHANGED liveVars
    /\ UNCHANGED editVars

\* what r.read() can return: the status of the response is not looked at,
\* so the body is the attachment or whatever else the server answered
Bodies == { <<"a", "b">>, <<"e">> }

\* the two names of an attachment file in its folder
tmp_path(file) == <<"tmp", file>>
dl_path(file) == <<"final", file>>

\* the directory L with the name bound to the inode, and without the name
Bound(L, name, inode) ==
    [n \in DOMAIN L \cup {name} |-> IF n = name THEN inode ELSE L[n]]
Unbound(L, name) == [n \in DOMAIN L \ {name} |-> L[n]]

\* open(tmp_path, 'wb'): an existing file is truncated, a missing one is
\* created; the position is 0
OpenWb(B, L, name) ==
    IF name \in DOMAIN L
    THEN [blocks |-> [B EXCEPT ![L[name]] = <<>>], link |-> L,
          inode |-> L[name]]
    ELSE [blocks |-> Append(B, <<>>), link |-> Bound(L, name, Len(B) + 1),
          inode |-> Len(B) + 1]

\* f.write(body) at position 0 of a file that holds old: what lies behind
\* the written bytes stays
WriteAt0(old, body) == body \o SubSeq(old, Len(body) + 1, Len(old))

\* os.rename(tmp_path, dl_path) when tmp_path exists
Renamed(L, file) ==
    Bound(Unbound(L, tmp_path(file)), dl_path(file), L[tmp_path(file)])

\* async with self.session.get(url) as r: answered, the temporary file is
\* opened and the body is awaited
GetResponse(r) ==
    /\ LoopFree
    /\ pc[r] = "get"
    /\ ~must_cancel[r]
    /\ ~lock
    /\ tmpFiles' = tmpFiles \cup { <<task[r].channel, task[r].message>> }
    /\ LET o == OpenWb(blocks, link,
                       tmp_path(<<task[r].channel, task[r].message>>))
       IN  /\ blocks' = o.blocks
           /\ link' = o.link
           /\ fd' = [fd EXCEPT ![r] = o.inode]
    /\ UNCHANGED received
    /\ pc' = [pc EXCEPT ![r] = "read"]
    /\ NoUpdate
    /\ UNCHANGED <<now, hist, should_dl, fetch_handle, must_cancel, future,
                   task, attFiles, requests, written, reply>>
    /\ UNCHANGED rot
    /\ UNCHANGED cacheVars
    /\ UNCHANGED transfers
    /\ UNCHANGED liveVars
    /\ UNCHANGED editVars

\* mutant of ReadResponse: the temporary file is never renamed
ReadResponse_NoRename(r) ==
    /\ LoopFree
    /\ pc[r] = "read"
    /\ ~must_cancel[r]
    /\ pc' = [pc EXCEPT ![r] = "post"]
    /\ NoUpdate
    /\ UNCHANGED <<now, hist, should_dl, fetch_handle, must_cancel, future,
                   task, attFiles, requests, written, reply>>
    /\ UNCHANGED rot
    /\ UNCHANGED cacheVars
    /\ UNCHANGED <<tmpFiles, transfers>>
    /\ UNCHANGED diskVars
    /\ UNCHANGED liveVars
    /\ UNCHANGED editVars

\* await r.read() answered: the body is written and the temporary file is
\* renamed; os.rename raises when the temporary file is no longer there
ReadResponse(r) ==
    /\ LoopFree
    /\ pc[r] = "read"
    /\ ~must_cancel[r]
    /\ LET file == <<task[r].channel, task[r].message>>
       IN  /\ \E body \in Bodies :
                /\ received' = received \cup { <<file, body>> }
                /\ blocks' = [blocks EXCEPT ![fd[r]] = WriteAt0(@, body)]
           /\ fd' = [fd EXCEPT ![r] = None]
           /\ IF file \in tmpFiles
              THEN /\ attFiles' = attFiles \cup {file}
                   /\ tmpFiles' = tmpFiles \ {file}
                   /\ link' = Renamed(link, file)
                   /\ pc' = [pc EXCEPT ![r] = "post"]
                   /\ NoUpdate
                   /\ UNCHANGED future
              ELSE /\ Raise(r, "FileNotFoundError: rename")
                   /\ UNCHANGED <<attFiles, tmpFiles, link>>
    /\ UNCHANGED <<now, hist, should_dl, fetch_handle, must_cancel,
                   task, requests, written, reply>>
    /\ UNCHANGED rot
    /\ UNCHANGED cacheVars
    /\ UNCHANGED transfers
    /\ UNCHANGED liveVars
    /\ UNCHANGED editVars

\* the transfer fails
TransferError(r) ==
    /\ LoopFree
    /\ pc[r] \in {"get", "read"}
    /\ ~must_cancel[r]
    /\ Raise(r, "ClientError: transfer")
    /\ UNCHANGED <<now, hist, should_dl, fetch_handle, must_cancel, task,
                   attFiles, requests, written, reply>>
    /\ UNCHANGED rot
    /\ UNCHANGED cacheVars
    /\ UNCHANGED <<tmpFiles, transfers>>
    /\ Closed(r)
    /\ UNCHANGED liveVars
    /\ UNCHANGED editVars

\* mutant of AfterMessage: count is not incremented
AfterMessage_NoCount(r) ==
    /\ pc[r] = "post"
    /\ update(r, task[r].count, FETCHING, task[r].channel, NoException,
              task[r].pending_channels)
    /\ task' = [task EXCEPT ![r].fetch_begin = task[r].message]
    /\ pc' = [pc EXCEPT ![r] = "iter"]
    /\ UNCHANGED <<now, hist, should_dl, fetch_handle, must_cancel, future,
                   attFiles, requests, written, reply>>
    /\ UNCHANGED rot
    /\ UNCHANGED cacheVars
    /\ UNCHANGED <<tmpFiles, transfers>>
    /\ UNCHANGED diskVars
    /\ UNCHANGED liveVars
    /\ UNCHANGED editVars

\* after message_handler returned: fetch_begin = message; update(count, ...,
\* FETCHING, ...); count += 1
AfterMessage(r) ==
    /\ pc[r] = "post"
    /\ update(r, task[r].count, FETCHING, task[r].channel, NoException,
              task[r].pending_channels)
    /\ task' = [task EXCEPT ![r].fetch_begin = task[r].message,
                            ![r].count = @ + 1]
    /\ pc' = [pc EXCEPT ![r] = "iter"]
    /\ UNCHANGED <<now, hist, should_dl, fetch_handle, must_cancel, future,
                   attFiles, requests, written, reply>>
    /\ UNCHANGED rot
    /\ UNCHANGED cacheVars
    /\ UNCHANGED <<tmpFiles, transfers>>
    /\ UNCHANGED diskVars
    /\ UNCHANGED liveVars
    /\ UNCHANGED editVars

\* mutant of PageEnd: Completed is reported at the end of every page
PageEnd_EveryPage(r) ==
    /\ pc[r] = "iter"
    /\ task[r].buffer = <<>>
    /\ update(r, task[r].count, COMPLETED, task[r].channel,
              NoException, task[r].pending_channels)
    /\ IF task[r].count = task[r].last_count
       THEN /\ task' = [task EXCEPT ![r].completed_channels =
                                        Append(@, task[r].channel)]
            /\ pc' = [pc EXCEPT ![r] = "for"]
       ELSE /\ pc' = [pc EXCEPT ![r] = "while"]
            /\ UNCHANGED task
    /\ UNCHANGED <<now, hist, should_dl, fetch_handle, must_cancel, future,
                   attFiles, requests, written, reply>>
    /\ UNCHANGED rot
    /\ UNCHANGED cacheVars
    /\ UNCHANGED <<tmpFiles, transfers>>
    /\ UNCHANGED diskVars
    /\ UNCHANGED liveVars
    /\ UNCHANGED editVars

\* mutant of PageEnd: the loop is not left when the page was empty
PageEnd_NoBreak(r) ==
    /\ pc[r] = "iter"
    /\ task[r].buffer = <<>>
    /\ task[r].count # task[r].last_count
    /\ IF task[r].count = task[r].last_count
       THEN /\ update(r, task[r].count, COMPLETED, task[r].channel,
                      NoException, task[r].pending_channels)
            /\ task' = [task EXCEPT ![r].completed_channels =
                                        Append(@, task[r].channel)]
            /\ pc' = [pc EXCEPT ![r] = "for"]
       ELSE /\ NoUpdate
            /\ pc' = [pc EXCEPT ![r] = "while"]
            /\ UNCHANGED task
    /\ UNCHANGED <<now, hist, should_dl, fetch_handle, must_cancel, future,
                   attFiles, requests, written, reply>>
    /\ UNCHANGED rot
    /\ UNCHANGED cacheVars
    /\ UNCHANGED <<tmpFiles, transfers>>
    /\ UNCHANGED diskVars
    /\ UNCHANGED liveVars
    /\ UNCHANGED editVars

\* the page is exhausted: if count == last_count the channel is complete,
\* otherwise the next history request follows
PageEnd(r) ==
    /\ pc[r] = "iter"
    /\ task[r].buffer = <<>>
    /\ IF task[r].count = task[r].last_count
       THEN /\ update(r, task[r].count, COMPLETED, task[r].channel,
                      NoException, task[r].pending_channels)
            /\ task' = [task EXCEPT ![r].completed_channels =
                                        Append(@, task[r].channel)]
            /\ pc' = [pc EXCEPT ![r] = "for"]
       ELSE /\ NoUpdate
            /\ pc' = [pc EXCEPT ![r] = "while"]
            /\ UNCHANGED task
    /\ UNCHANGED <<now, hist, should_dl, fetch_handle, must_cancel, future,
                   attFiles, requests, written, reply>>
    /\ UNCHANGED rot
    /\ UNCHANGED cacheVars
    /\ UNCHANGED <<tmpFiles, transfers>>
    /\ UNCHANGED diskVars
    /\ UNCHANGED liveVars
    /\ UNCHANGED editVars

\* the clock: it is read by Dispatch and by fetch_callback only, and the
\* synchronous part of a step takes no time
Tick ==
    /\ LoopFree
    /\ \E r \in DOMAIN future : future[r] = "pending"
    /\ now < MaxTime
    /\ now' = now + 1
    /\ UNCHANGED <<hist, should_dl, fetch_handle, pc, must_cancel, future,
                   task, cookie, attFiles, events, edits, summaries, requests,
                   written, reply>>
    /\ UNCHANGED rot
    /\ UNCHANGED cacheVars
    /\ UNCHANGED <<tmpFiles, transfers>>
    /\ UNCHANGED diskVars
    /\ UNCHANGED liveVars
    /\ UNCHANGED editVars

Next ==
    \/ \E r \in Runs : fetch_channel(r)
    \/ \E r \in Runs : fetch_server(r)
    \/ fetch_cancel
    \/ \E r \in Runs : TaskStart(r)
    \/ \E r \in Runs : ForNext(r)
    \/ \E r \in Runs : WhileTop(r)
    \/ \E r \in Runs : PageResponse(r)
    \/ \E r \in Runs : PageError(r)
    \/ \E r \in Runs : Cancelled(r)
    \/ \E r \in Runs : MessageHandler(r)
    \/ \E r \in Runs : LogError(r)
    \/ \E r \in Runs : GetResponse(r)
    \/ \E r \in Runs : ReadResponse(r)
    \/ \E r \in Runs : TransferError(r)
    \/ \E r \in Runs : AfterMessage(r)
    \/ \E r \in Runs : PageEnd(r)
    \/ Tick

Spec == Init /\ [][Next]_vars

\* --------------------------- specification of format_rotation_string
\* the inputs: a timestamp, a second one at most a week later, a rotation
\* code and a base name
InitRotation ==
    /\ InitIdle
    /\ InitCache
    /\ InitLive
    /\ hist = [c \in Channels |-> <<>>]
    /\ \E t \in RotationTimestamps :
         \E o \in { x \in RotationTimestamps :
                        /\ x.hour = t.hour
                        /\ toordinal(x) - toordinal(t) \in 0..DaysPerWeek } :
            \E c \in RotationCodes, f \in FileNames :
                rot = [NoRotation EXCEPT !.timestamp = t, !.other = o,
                                         !.rotation_code = c, !.filename = f]

\* format_rotation_string applied to both timestamps
Rotate ==
    /\ ~rot.called
    /\ rot' = [rot EXCEPT
          !.called = TRUE,
          !.out = format_rotation_string(rot.timestamp, rot.rotation_code,
                                         rot.filename),
          !.out2 = format_rotation_string(rot.other, rot.rotation_code,
                                          rot.filename)]
    /\ UNCHANGED <<fetchVars, cacheVars>>
    /\ UNCHANGED diskVars
    /\ UNCHANGED liveVars
    /\ UNCHANGED editVars

NextRotation == Rotate

SpecRotation == InitRotation /\ [][NextRotation]_vars

\* ------------------------------------- specification with fair scheduling
\* a step of the task of run r: the event loop resumes a task that can go
\* on, and every history request and transfer is answered in the end
Step(r) ==
    \/ TaskStart(r)
    \/ ForNext(r)
    \/ WhileTop(r)
    \/ PageResponse(r)
    \/ PageError(r)
    \/ Cancelled(r)
    \/ MessageHandler(r)
    \/ LogError(r)
    \/ GetResponse(r)
    \/ ReadResponse(r)
    \/ TransferError(r)
    \/ AfterMessage(r)
    \/ PageEnd(r)

\* the commands and the steps of the task; the clock stands still, which
\* takes no step away from the task
NextFair ==
    \/ \E r \in Runs : fetch_channel(r)
    \/ \E r \in Runs : fetch_server(r)
    \/ fetch_cancel
    \/ \E r \in Runs : Step(r)

SpecFair == Init /\ [][NextFair]_vars /\ \A r \in Runs : WF_vars(Step(r))

\* ------------------------------------- specification of the status edits
\* cookie_edit_task up to its await: the tasks fetch_callback created start
\* in the order they were created, the k-th with the k-th composed text;
\* _robust_edit reads cookie.status_msg and the edit request is on its way
EditStart(r) ==
    /\ LoopFree
    /\ Len(etask[r]) < Len(edits[r])
    /\ etask' = [etask EXCEPT ![r] =
                    Append(@, [pc |-> "edit", msg |-> status_msg[r]])]
    /\ UNCHANGED <<fetchVars, cacheVars, diskVars, liveVars, rot, shown,
                   status_msg>>

\* bot.edit_message answers: the message shows the text and is assigned to
\* cookie.status_msg, or it is gone (NotFound) and send_message is called
EditAnswer(r, k) ==
    /\ LoopFree
    /\ etask[r][k].pc = "edit"
    /\ LET m == etask[r][k].msg
       IN  IF ~shown[m].deleted
           THEN /\ shown' = [shown EXCEPT ![m].content =
                                [run |-> r, edit |-> k]]
                /\ status_msg' = [status_msg EXCEPT ![r] = m]
                /\ etask' = [etask EXCEPT ![r][k].pc = "done"]
           ELSE /\ etask' = [etask EXCEPT ![r][k].pc = "send"]
                /\ UNCHANGED <<shown, status_msg>>
    /\ UNCHANGED <<fetchVars, cacheVars, diskVars, liveVars, rot>>

\* bot.send_message answers: a fresh message shows the text and is assigned
\* to cookie.status_msg
SendAnswer(r, k) ==
    /\ LoopFree
    /\ etask[r][k].pc = "send"
    /\ shown' = Append(shown, [content |-> [run |-> r, edit |-> k],
                                deleted |-> FALSE])
    /\ status_msg' = [status_msg EXCEPT ![r] = Len(shown) + 1]
    /\ etask' = [etask EXCEPT ![r][k].pc = "done"]
    /\ UNCHANGED <<fetchVars, cacheVars, diskVars, liveVars, rot>>

\* somebody deletes a message of the bot
DeleteStatus(m) ==
    /\ ~shown[m].deleted
    /\ shown' = [shown EXCEPT ![m].deleted = TRUE]
    /\ UNCHANGED <<fetchVars, cacheVars, diskVars, liveVars, rot, status_msg,
                   etask>>

\* one run over a short history, its edit tasks, the clock standing still
InitEdits ==
    /\ InitIdle
    /\ InitCache
    /\ InitLive
    /\ rot = NoRotation
    /\ hist = [c \in Channels |->
                 IF c = ServerChannels[1] THEN <<"unknown">> ELSE <<>>]

\* a task made by create_task is ready at once: when the running task
\* suspends, the event loop starts it before it handles anything that
\* arrives from the network
EditPending ==
    LoopFree /\ \E r \in Runs : Len(etask[r]) < Len(edits[r])

NextEdits ==
    \/ \E r \in Runs : EditStart(r)
    \/ ~EditPending /\ \E r \in Runs : fetch_channel(r)
    \/ ~EditPending /\ \E r \in Runs : fetch_server(r)
    \/ ~EditPending /\ fetch_cancel
    \/ ~EditPending /\ \E r \in Runs : Step(r)
    \/ ~EditPending /\ \E r \in Runs :
                          \E k \in 1..Len(etask[r]) : EditAnswer(r, k)
    \/ ~EditPending /\ \E r \in Runs :
                          \E k \in 1..Len(etask[r]) : SendAnswer(r, k)
    \/ ~EditPending /\ \E m \in 1..Len(shown) : DeleteStatus(m)

SpecEdits == InitEdits /\ [][NextEdits]_vars

\* --------------------------------- specification of process_attachment
\* process_attachment as a function of the id and the original name
InitAttachment ==
    /\ InitIdle
    /\ InitCache
    /\ hist = [c \in Channels |-> <<>>]
    /\ rot = NoRotation
    /\ settings = DefaultSettings
    /\ event = NoEvent
    /\ \E aid \in AttachmentIds, aname \in AttachmentNames :
         att = [NoAttachment EXCEPT !.aid = aid, !.aname = aname]

ProcessAttachment ==
    /\ ~att.called
    /\ LET out == process_attachment(att.aid, att.aname)
       IN  att' = [att EXCEPT !.called = TRUE, !.filename = out.filename,
                              !.truncated = out.truncated]
    /\ UNCHANGED <<fetchVars, cacheVars, diskVars, rot, settings, event>>
    /\ UNCHANGED editVars

NextAttachment == ProcessAttachment

SpecAttachment == InitAttachment /\ [][NextAttachment]_vars

\* ------------------------------------- specification of the handle table
\* live events that only call self.log (on_message_delete, on_server_join,
\* ...), deleted log files, the clock and __unload, from a table that
\* already holds MaxHandles - 1 or MaxHandles entries
EventPaths == {1, MaxHandles + 1, MaxHandles + 2}
DeletedPaths == {1}

\* the table after the first n log calls, one per path, all at time 0
Filled(n) ==
    /\ handles = [i \in 1..n |-> [path |-> i, time |-> 0, open |-> TRUE,
                                  locked |-> FALSE]]
    /\ files = [p \in 1..n |-> [lines |-> <<p>>, mtime |-> 0]]
    /\ issued = [i \in 1..n |-> i]

InitHandles ==
    /\ InitIdle
    /\ InitLive
    /\ hist = [c \in Channels |-> <<>>]
    /\ rot = NoRotation
    /\ lock = FALSE
    /\ ret = NoRet
    /\ \E n \in {MaxHandles - 1, MaxHandles} : Filled(n)

\* an event handler: await self.log(location, entry), the location enabled
\* in the settings
LogEvent(path) ==
    /\ LoopFree
    /\ ~lock
    /\ Len(issued) < MaxHandles + MaxLog
    /\ \E env \in Env : log(path, env)
    /\ UNCHANGED <<fetchVars, rot, lock>>
    /\ UNCHANGED diskVars
    /\ UNCHANGED liveVars
    /\ UNCHANGED editVars

\* somebody deletes a log file
DeleteFile(path) ==
    /\ ~lock
    /\ path \in DOMAIN files
    /\ files' = [p \in DOMAIN files \ {path} |-> files[p]]
    /\ UNCHANGED <<fetchVars, rot, lock, handles, issued, ret>>
    /\ UNCHANGED diskVars
    /\ UNCHANGED liveVars
    /\ UNCHANGED editVars

\* time passes between two events
Elapse ==
    /\ LoopFree
    /\ ~lock
    /\ now < MaxAge
    /\ now' = now + 1
    /\ UNCHANGED <<hist, should_dl, fetch_handle, pc, must_cancel, future,
                   task, cookie, attFiles, events, edits, summaries, requests,
                   written, reply, tmpFiles, transfers>>
    /\ UNCHANGED <<rot, cacheVars>>
    /\ UNCHANGED diskVars
    /\ UNCHANGED liveVars
    /\ UNCHANGED editVars

\* positions in the table at which close() may raise during __unload
FailPoints(T) == {0} \cup ({1} \cap (1..Len(T)))

\* __unload; fail is the position of the first handle whose close() raises
\* (0: none does): the exception leaves the loop and __unload
unload(fail) ==
    /\ LoopFree
    /\ ~lock
    /\ lock' = TRUE
    /\ handles' = [i \in 1..Len(handles) |->
                     IF fail = 0 \/ i <= fail
                     THEN [handles[i] EXCEPT !.open = FALSE]
                     ELSE handles[i]]
    /\ ret' = [NoRet EXCEPT
                 !.op = "unload",
                 !.raised = IF fail = 0 THEN NoException ELSE "OSError: close",
                 !.closed = { handles[i].path :
                    i \in 1..(IF fail = 0 THEN Len(handles) ELSE fail) },
                 !.failed = IF fail = 0 THEN {} ELSE {handles[fail].path}]
    /\ IF fail = 0 /\ fetch_handle # None
                   /\ future[fetch_handle] # "cancelled"
       THEN must_cancel' = [must_cancel EXCEPT ![fetch_handle] =
                                (future[fetch_handle] = "pending")]
       ELSE UNCHANGED must_cancel
    /\ UNCHANGED <<now, hist, should_dl, fetch_handle, pc, future, task,
                   cookie, attFiles, events, edits, summaries, requests,
                   written, reply, tmpFiles, transfers>>
    /\ UNCHANGED <<rot, files, issued>>
    /\ UNCHANGED diskVars
    /\ UNCHANGED liveVars
    /\ UNCHANGED editVars

NextHandles ==
    \/ \E path \in EventPaths : LogEvent(path)
    \/ \E path \in DeletedPaths : DeleteFile(path)
    \/ Elapse
    \/ \E fail \in FailPoints(handles) : unload(fail)

SpecHandles == InitHandles /\ [][NextHandles]_vars

\* ------------------------------------------- specification of log's gate
\* log as its callers call it, under any settings, and __unload
InitGate ==
    /\ InitIdle
    /\ InitCache
    /\ hist = [c \in Channels |-> <<>>]
    /\ rot = NoRotation
    /\ att = NoAttachment
    /\ event = NoEvent
    /\ settings \in Settings

\* mutant of log_entry: force is not looked at
log_entry_NoForce(location, text, force) ==
    /\ LoopFree
    /\ Len(issued) < MaxEvents
    /\ IF lock \/ ~(should_log(settings, location))
          \/ location.type \notin LogTypes
       THEN /\ event' = [location |-> location, text |-> text,
                         force |-> force, entry |-> <<>>]
            /\ UNCHANGED cacheVars
       ELSE /\ event' = [location |-> location, text |-> text,
                         force |-> force,
                         entry |-> LogLine(now, location, text)]
            /\ \E env \in Env : log(LocationPath(location), env)
            /\ UNCHANGED lock
    /\ UNCHANGED <<fetchVars, diskVars, rot, att, settings>>
    /\ UNCHANGED editVars

\* log(location, text, force=force) from its first line: the gate, the
\* path and the entry, then gethandle and handle.write
log_entry(location, text, force) ==
    /\ LoopFree
    /\ Len(issued) < MaxEvents
    /\ IF lock \/ ~(force \/ should_log(settings, location))
          \/ location.type \notin LogTypes
       THEN /\ event' = [location |-> location, text |-> text,
                         force |-> force, entry |-> <<>>]
            /\ UNCHANGED cacheVars
       ELSE /\ event' = [location |-> location, text |-> text,
                         force |-> force,
                         entry |-> LogLine(now, location, text)]
            /\ \E env \in Env : log(LocationPath(location), env)
            /\ UNCHANGED lock
    /\ UNCHANGED <<fetchVars, diskVars, rot, att, settings>>
    /\ UNCHANGED editVars

NextGate ==
    \/ \E location \in Locations, text \in Texts, force \in BOOLEAN :
          log_entry(location, text, force)
    \/ \E fail \in FailPoints(handles) : unload(fail)

SpecGate == InitGate /\ [][NextGate]_vars

\* ------------------------------------------ specification of the job slot
\* two backfill runs, dispatched one while the other may still be running,
\* fetch_cancel and __unload; the first channel holds one message and the
\* clock stands still
SlotRuns == {1, 2}

InitSlot ==
    /\ Idle(SlotRuns)
    /\ InitCache
    /\ InitLive
    /\ rot = NoRotation
    /\ hist = [c \in Channels |->
                 IF c = ServerChannels[1] THEN <<"unknown">> ELSE <<>>]

NextSlot ==
    \/ \E r \in SlotRuns : fetch_channel(r)
    \/ fetch_cancel
    \/ \E fail \in FailPoints(handles) : unload(fail)
    \/ \E r \in SlotRuns : TaskStart(r)
    \/ \E r \in SlotRuns : ForNext(r)
    \/ \E r \in SlotRuns : WhileTop(r)
    \/ \E r \in SlotRuns : PageResponse(r)
    \/ \E r \in SlotRuns : PageError(r)
    \/ \E r \in SlotRuns : Cancelled(r)
    \/ \E r \in SlotRuns : MessageHandler(r)
    \/ \E r \in SlotRuns : LogError(r)
    \/ \E r \in SlotRuns : GetResponse(r)
    \/ \E r \in SlotRuns : ReadResponse(r)
    \/ \E r \in SlotRuns : TransferError(r)
    \/ \E r \in SlotRuns : AfterMessage(r)
    \/ \E r \in SlotRuns : PageEnd(r)

SpecSlot == InitSlot /\ [][NextSlot]_vars

\* ======================================================================
\* Properties of the backfill run
\* ======================================================================
ChannelEvents(r, c) == SelectSeq(events[r], LAMBDA e : e.channel = c)
Logged(r, c) == SelectSeq(written[r], LAMBDA w : w.channel = c)
Fetched(r, c) == SelectSeq(ChannelEvents(r, c), LAMBDA e : e.status = FETCHING)
RequestsFor(r, c) == SelectSeq(requests[r], LAMBDA q : q.channel = c)
Visited(r) == { events[r][i].channel : i \in 1..Len(events[r]) }
\* channels of the run that come after channel c in its channel list
LaterChannels(r, c) ==
    { task[r].channels[j] : j \in (IndexOf(task[r].channels, c) + 1)..Len(task[r].channels) }
Done(r) == pc[r] = "done"

\* C1: the progress events of a visited channel are one Starting event with
\* count 0, then Fetching events only, then, once the run has ended, exactly
\* one terminal event (Completed, Cancelled or Failed), which is the last
\* progress event of that channel.
C1_EventOrder ==
    \A r \in Runs : \A c \in Visited(r) :
        LET E == ChannelEvents(r, c)
        IN  /\ E[1].status = STARTING /\ E[1].count = 0
            /\ \A i \in 2..Len(E) :
                  /\ E[i].status # STARTING
                  /\ E[i].status \in Terminal => i = Len(E)
            /\ \A i \in 1..(Len(E) - 1) : E[i].status \notin Terminal
            /\ Done(r) => Len(E) >= 2 /\ E[Len(E)].status \in Terminal

C1_Witness ==
    \E r \in Runs : \E c \in Visited(r) :
        LET E == ChannelEvents(r, c)
        IN  /\ Done(r) /\ Len(E) = 4
            /\ E[2].status = FETCHING /\ E[3].status = FETCHING
            /\ E[4].status = COMPLETED

\* C2: a channel of N messages that the run completes is reported Completed
\* with count N, each of its messages was passed to the log writer exactly
\* once, and the history request that yielded no message is the last request
\* made for that channel.
C2_CompletedCount ==
    \A r \in Runs : \A c \in Visited(r) :
        LET E == ChannelEvents(r, c)
            N == Len(hist[c])
            Q == RequestsFor(r, c)
        IN  /\ E[Len(E)].status = COMPLETED =>
                /\ E[Len(E)].count = N
                /\ \A m \in 1..N :
                      Len(SelectSeq(Logged(r, c), LAMBDA w : w.message = m)) = 1
                /\ Len(Logged(r, c)) = N
            /\ \A i \in 1..Len(Q) : Q[i].yielded = 0 => i = Len(Q)

C2_Witness ==
    \E r \in Runs : \E c \in Visited(r) :
        LET E == ChannelEvents(r, c)
        IN  /\ E[Len(E)].status = COMPLETED
            /\ E[Len(E)].count = MaxHist
            /\ Len(RequestsFor(r, c)) >= 3

\* C3: a cancellation delivered to a run that is in a channel is reported as
\* Cancelled for that channel with the number of messages processed so far
\* (the cursor), it is the last progress event of the run, the run has ended,
\* and the channels later in the list have no progress event and are still
\* pending.
C3_CancelledState ==
    \A r \in Runs : \A i \in 1..Len(events[r]) :
        LET e == events[r][i]
        IN  e.status = CANCELLED =>
                /\ i = Len(events[r])
                /\ Done(r)
                /\ e.channel = task[r].channel
                /\ e.count = task[r].fetch_begin
                /\ e.count = Len(Fetched(r, e.channel))
                /\ \A c \in LaterChannels(r, e.channel) :
                      /\ c \notin Visited(r)
                      /\ \E j \in 1..Len(task[r].pending_channels) :
                            task[r].pending_channels[j] = c

C3_CancelDelivered ==
    \A r \in Runs :
        (must_cancel[r] /\ pc[r] \in {"page", "get", "read"} /\ pc'[r] # pc[r])
            => /\ pc'[r] = "done"
               /\ Len(events'[r]) = Len(events[r]) + 1
               /\ events'[r][Len(events'[r])].status = CANCELLED
               /\ events'[r][Len(events'[r])].count = task[r].fetch_begin

C3_Cancelled == [](C3_CancelledState) /\ [][C3_CancelDelivered]_vars

C3_Witness ==
    \E r \in Runs :
        /\ Len(events[r]) >= 1
        /\ events[r][Len(events[r])].status = CANCELLED
        /\ events[r][Len(events[r])].count = 1
        /\ task[r].pending_channels # <<>>

\* the status text scheduled for progress event i of run r
EditOf(r, i) == CHOOSE d \in {edits[r][k] : k \in 1..Len(edits[r])} : d.event = i
HasEdit(r, i) == \E k \in 1..Len(edits[r]) : edits[r][k].event = i
Contains(content, line) == \E k \in 1..Len(content) : content[k] = line

\* C4: an error while fetching or writing message k+1 of a channel is
\* reported as Failed for that channel with count k, the status text of
\* that report names the error (type and message) after the count and holds
\* the summary line of every channel completed before, the error is
\* re-raised (the task ends with it) and no later channel is started.
C4_Failed ==
    \A r \in Runs : \A i \in 1..Len(events[r]) :
        LET e == events[r][i]
        IN  e.status = EXCEPTION =>
                /\ i = Len(events[r])
                /\ Done(r) /\ future[r] = "exception"
                /\ e.channel = task[r].channel
                /\ e.count = task[r].fetch_begin
                /\ e.count = Len(Fetched(r, e.channel))
                /\ e.exception # NoException
                /\ HasEdit(r, i)
                /\ Contains(EditOf(r, i).content,
                            Line(e.channel, "error after", e.count, e.exception))
                /\ \A j \in 1..(i - 1) :
                      events[r][j].status = COMPLETED =>
                          Contains(EditOf(r, i).content,
                                   Line(events[r][j].channel, "fetched",
                                        events[r][j].count, NoException))
                /\ \A c \in LaterChannels(r, e.channel) : c \notin Visited(r)

C4_Witness ==
    \E r \in Runs : \E i \in 2..Len(events[r]) :
        /\ events[r][i].status = EXCEPTION
        /\ events[r][i].count = 1
        /\ \E j \in 1..(i - 1) : events[r][j].status = COMPLETED
                                 /\ events[r][j].count = 1

\* C5: the channels of a run are processed one after another in the order of
\* the channel list (a channel starts right after the previous channel of
\* the list completed), the messages of a channel are passed to the log
\* writer oldest first, and between two messages the cursor is the last
\* message that was processed.
C5_Sequential ==
    \A r \in Runs :
        /\ \A i \in 1..Len(events[r]) :
              LET e == events[r][i]
              IN  e.status = STARTING =>
                      IF i = 1 THEN e.channel = task[r].channels[1]
                      ELSE /\ events[r][i - 1].status = COMPLETED
                           /\ IndexOf(task[r].channels, e.channel) =
                              IndexOf(task[r].channels, events[r][i - 1].channel) + 1
        /\ \A i \in 1..Len(written[r]) :
              IF i = 1 \/ written[r][i - 1].channel # written[r][i].channel
              THEN written[r][i].message = 1
              ELSE written[r][i].message = written[r][i - 1].message + 1
        /\ \A i \in 2..Len(written[r]) :
              IndexOf(task[r].channels, written[r][i - 1].channel) <=
              IndexOf(task[r].channels, written[r][i].channel)
        /\ pc[r] \in {"while", "page", "iter"} =>
              /\ task[r].fetch_begin = Len(Logged(r, task[r].channel))
              /\ task[r].fetch_begin = task[r].count
        /\ \A k \in 1..Len(requests[r]) :
              requests[r][k].after <= Len(Logged(r, requests[r][k].channel))

C5_Witness ==
    \E r \in Runs :
        /\ Len(written[r]) = 2 * MaxHist
        /\ written[r][1].channel # written[r][Len(written[r])].channel
        /\ pc[r] = "page" /\ task[r].fetch_begin = MaxHist

\* message m of channel c is one whose attachment run r downloads
Downloads(r, c, m) == hist[c][m] = "attachment" /\ dl_attachment(r)

\* C6 (as claimed): cancellation takes effect between history pages only, so
\* when a run is reported Cancelled every message whose log line was written
\* is counted and its attachment is stored.
C6_BetweenPagesOnly ==
    \A r \in Runs : \A i \in 1..Len(events[r]) :
        LET e == events[r][i]
            L == Logged(r, e.channel)
        IN  e.status = CANCELLED =>
                /\ Len(L) = e.count
                /\ \A k \in 1..Len(L) :
                      Downloads(r, e.channel, L[k].message)
                          => <<e.channel, L[k].message>> \in attFiles

\* C6 (amended): cancellation takes effect at the await the run is suspended
\* in, a history request or the attachment transfer of the message being
\* processed: every message counted in the reported count has its log line
\* written and its attachment stored, and at most one more message has its
\* log line written, the one whose attachment transfer was interrupted.
C6_CancelAtAwaitState ==
    \A r \in Runs : \A i \in 1..Len(events[r]) :
        LET e == events[r][i]
            L == Logged(r, e.channel)
        IN  e.status = CANCELLED =>
                /\ Len(L) \in {e.count, e.count + 1}
                /\ \A m \in 1..e.count :
                      /\ L[m].message = m
                      /\ Downloads(r, e.channel, m)
                            => <<e.channel, m>> \in attFiles
                /\ Len(L) = e.count + 1 =>
                      /\ Downloads(r, e.channel, e.count + 1)
                      /\ task[r].message = e.count + 1

C6_CancelAtAwaitStep ==
    \A r \in Runs :
        (Len(events'[r]) = Len(events[r]) + 1
            /\ events'[r][Len(events'[r])].status = CANCELLED)
        => /\ pc[r] \in {"page", "get", "read"}
           /\ written'[r] = written[r]
           /\ pc[r] = "page" => Len(Logged(r, task[r].channel)) = task[r].count

C6_CancelAtAwait == [](C6_CancelAtAwaitState) /\ [][C6_CancelAtAwaitStep]_vars

C6_Witness ==
    \E r \in Runs : \E i \in 1..Len(events[r]) :
        /\ events[r][i].status = CANCELLED
        /\ events[r][i].count = 1
        /\ Len(Logged(r, events[r][i].channel)) = 2
        /\ <<events[r][i].channel, 1>> \in attFiles

\* a step in which run r reports a progress event / schedules a status edit
Reports(r) == Len(events'[r]) = Len(events[r]) + 1
Reported(r) == events'[r][Len(events'[r])]
PushesEdit(r) == Len(edits'[r]) = Len(edits[r]) + 1
SinceLastEdit(r) == now - cookie[r].last_edit

\* C7 (as claimed): a progress event pushes a status edit only if at least 3
\* seconds have passed since the previous pushed edit, or it is a terminal
\* event of a channel, or it is the first Starting event of the run.
C7_FirstStartingOnly ==
    [][\A r \in Runs :
        (Reports(r) /\ PushesEdit(r)) =>
            \/ cookie[r].last_edit # None /\ SinceLastEdit(r) >= EDIT_TIMEDELTA
            \/ Reported(r).status \in Terminal
            \/ Reported(r).status = STARTING /\ events[r] = <<>>]_vars

\* C7 (amended): a progress event pushes a status edit only if at least 3
\* seconds have passed since the previous pushed edit, or it is a terminal
\* event of a channel, or it is the Starting event of a channel (the first
\* or a later channel of the run); no edit is pushed without a progress event.
C7_Throttle ==
    [][\A r \in Runs :
        /\ (Reports(r) /\ PushesEdit(r)) =>
              \/ cookie[r].last_edit # None /\ SinceLastEdit(r) >= EDIT_TIMEDELTA
              \/ Reported(r).status \in Terminal
              \/ Reported(r).status = STARTING
        /\ edits'[r] # edits[r] => Reports(r) /\ PushesEdit(r)]_vars

C7_Witness ==
    \E r \in Runs : \E k \in 1..Len(edits[r]) :
        /\ events[r][edits[r][k].event].status = FETCHING
        /\ \E i \in 1..Len(events[r]) :
              events[r][i].status = FETCHING /\ ~HasEdit(r, i)

\* C8: every status text is the final summary lines of the channels completed
\* before, in completion order, then one line for the active channel, then
\* one pending line per channel not started yet; its lines name every channel
\* of the run exactly once.
C8_StatusText ==
    \A r \in Runs : \A k \in 1..Len(edits[r]) :
        LET d == edits[r][k]
            e == events[r][d.event]
            before == SubSeq(events[r], 1, d.event - 1)
            completed == SelectSeq(before, LAMBDA x : x.status = COMPLETED)
            n == Len(completed)
            started == { events[r][j].channel : j \in 1..d.event }
        IN  /\ Len(d.content) = Len(task[r].channels)
            /\ \A j \in 1..n :
                  d.content[j] = Line(completed[j].channel, "fetched",
                                      completed[j].count, NoException)
            /\ d.content[n + 1].channel = e.channel
            /\ d.content[n + 1].kind \notin {"pending", "none"}
            /\ \A j \in (n + 2)..Len(d.content) :
                  /\ d.content[j].kind = "pending"
                  /\ d.content[j].channel \notin started
            /\ \A c \in Channels :
                  Cardinality({ j \in 1..Len(d.content) : d.content[j].channel = c })
                    = Cardinality({ j \in 1..Len(task[r].channels) :
                                        task[r].channels[j] = c })

C8_Witness ==
    \E r \in Runs : \E k1, k2 \in 1..Len(edits[r]) :
        /\ Len(task[r].channels) = 2
        /\ edits[r][k1].content[2].kind = "pending"
        /\ edits[r][k1].content[1].kind = "retrieved so far..."
        /\ edits[r][k2].content[1].kind = "fetched"
        /\ edits[r][k2].content[2].kind = "cancelled after"

RECURSIVE SumCompleted(_)
SumCompleted(E) ==
    IF E = <<>> THEN 0
    ELSE (IF Head(E).status = COMPLETED THEN Head(E).count ELSE 0)
         + SumCompleted(Tail(E))

\* every channel of the run reached Completed and the task returned
AllCompleted(r) ==
    /\ Done(r) /\ future[r] = "finished"
    /\ \A c \in Channels :
          (\E j \in 1..Len(task[r].channels) : task[r].channels[j] = c)
            => \E i \in 1..Len(events[r]) :
                  events[r][i].channel = c /\ events[r][i].status = COMPLETED

\* C9: a run in which every channel reached Completed, whatever its channel
\* list, has emitted exactly one final summary, whose total is the sum of the
\* Completed counts; a run that ended Cancelled or Failed has emitted none.
C9_FinalSummary ==
    \A r \in Runs :
        /\ AllCompleted(r) =>
              /\ Len(summaries[r]) = 1
              /\ summaries[r][1] = SumCompleted(events[r])
        /\ (events[r] # <<>>
            /\ events[r][Len(events[r])].status \in {CANCELLED, EXCEPTION})
              => summaries[r] = <<>>

\* C10: fetch_cancel signals the task in the slot and clears the slot exactly
\* when that task is still running; otherwise (no task in the slot, or a task
\* that has already ended) it says there is nothing to cancel and leaves slot
\* and tasks as they are.
CancelStep ==
    \/ reply' # reply
    \/ fetch_handle # None /\ fetch_handle' = None
    \/ \E r \in Runs : must_cancel'[r] /\ ~must_cancel[r]

C10_CancelOnlyActive ==
    [][CancelStep =>
        IF fetch_handle # None /\ future[fetch_handle] = "pending"
        THEN /\ must_cancel'[fetch_handle]
             /\ fetch_handle' = None
             /\ reply'.text = "Fetch cancelled."
        ELSE /\ reply'.text = "Nothing to cancel."
             /\ UNCHANGED <<fetch_handle, must_cancel>>]_vars

\* ------------------------------------------------------------ job slot
\* the run in the slot is the run dispatched last
SlotIsNewest ==
    fetch_handle # None =>
        /\ pc[fetch_handle] # "unused"
        /\ \A q \in DOMAIN pc : q > fetch_handle => pc[q] = "unused"

Dispatched(r) == pc[r] = "unused" /\ pc'[r] # "unused"

EndsCancelled(r) ==
    \/ future'[r] = "cancelled" /\ future[r] # "cancelled"
    \/ /\ Len(events'[r]) > Len(events[r])
       /\ events'[r][Len(events'[r])].status = CANCELLED

\* C11: the slot holds no run or one.  When a run is dispatched while an
\* older run is still running, the older run is not cancelled and goes on,
\* and the slot refers to the new run only; cancel() is only ever called on
\* the run in the slot (by fetch_cancel or __unload), so once a run has been
\* replaced in the slot nothing cancels it, and only a run cancel() was
\* called on ends Cancelled.
C11_SlotStep ==
    /\ \A r \in DOMAIN pc : Dispatched(r) =>
          /\ fetch_handle' = r
          /\ must_cancel' = must_cancel
          /\ \A q \in DOMAIN pc \ {r} :
                pc'[q] = pc[q] /\ future'[q] = future[q]
    /\ \A r \in DOMAIN pc :
          (must_cancel'[r] /\ ~must_cancel[r]) => fetch_handle = r
    /\ \A r \in DOMAIN pc : EndsCancelled(r) => must_cancel[r]

C11_OneSlot == [](SlotIsNewest) /\ [][C11_SlotStep]_vars

C11_Witness ==
    /\ lock
    /\ fetch_handle = None
    /\ reply.text = "Fetch cancelled."
    /\ pc[1] \in {"page", "get", "read"}
    /\ ~must_cancel[1]
    /\ events[2] # <<>>
    /\ events[2][Len(events[2])].status = CANCELLED

\* ------------------------------------------------------ handle table
TablePaths(T) == { T[i].path : i \in 1..Len(T) }

\* a step in which log was called and reached gethandle
LogStep == issued' # issued

\* the entries of other paths that the call removed from the table
Evicted == (TablePaths(handles) \ TablePaths(handles')) \ {ret'.path}

\* C12: after any sequence of gethandle calls (new, cached and stale paths,
\* failing opens) the handle table holds at most one entry per path and
\* never more than 256 entries.
C12_TableBound ==
    /\ Len(handles) <= MaxHandles
    /\ Cardinality(TablePaths(handles)) = Len(handles)

C12_Witness ==
    /\ ret.op = "log"
    /\ ret.path \notin 1..MaxHandles
    /\ ret.closed # {}
    /\ ret.raised = NoException
    /\ Len(handles) = MaxHandles

\* C13: a gethandle call for a path not in the table that finds the table
\* holding 256 entries closes and removes exactly one entry, one whose time
\* of last write is the oldest of all entries; with fewer than 256 entries,
\* or for a path already in the table, no entry is evicted.
C13_EvictOldest ==
    [][LogStep =>
        IF ~Has(handles, ret'.path) /\ Len(handles) = MaxHandles
        THEN \E i \in 1..Len(handles) :
                /\ Evicted = {handles[i].path}
                /\ ret'.closed = {handles[i].path}
                /\ \A j \in 1..Len(handles) :
                      handles[i].time <= handles[j].time
        ELSE /\ Evicted = {}
             /\ ret'.closed \subseteq {ret'.path}]_vars

Deleted(path) == Has(handles, path) /\ path \notin DOMAIN files

\* the entry of the path is open and its file is there
Fresh(T, F, path) ==
    /\ Has(T, path)
    /\ T[At(T, path)].open
    /\ path \in DOMAIN F

\* C15 as stated: when the file of a cached path was deleted, the next
\* gethandle closes and discards the stale entry and returns a freshly
\* opened entry for the path without raising, also when closing the stale
\* handle fails, and the table holds exactly one entry for the path.
C15_StaleAlwaysReopened ==
    [][(LogStep /\ Deleted(ret'.path)) =>
        /\ ret'.path \in ret'.closed
        /\ ret'.raised = NoException
        /\ Fresh(handles', files', ret'.path)
        /\ Cardinality({ i \in 1..Len(handles') :
                            handles'[i].path = ret'.path }) = 1]_vars

\* C15, amended: the stale entry is closed and discarded, a failing close
\* is not raised, and the path is opened again: when the open succeeds the
\* table holds exactly one, fresh, entry for the path; when it fails that
\* failure is raised and the table holds no entry for the path.
C15_StaleReopened ==
    [][(LogStep /\ Deleted(ret'.path)) =>
        /\ ret'.path \in ret'.closed
        /\ \/ /\ ret'.raised = NoException
              /\ Fresh(handles', files', ret'.path)
              /\ Cardinality({ i \in 1..Len(handles') :
                                  handles'[i].path = ret'.path }) = 1
           \/ /\ ret'.raised = "OSError: open"
              /\ ~Has(handles', ret'.path)]_vars

C15_Witness ==
    /\ ret.op = "log"
    /\ ret.path \in ret.closed
    /\ ret.path \in ret.failed
    /\ ret.raised = NoException
    /\ Fresh(handles, files, ret.path)

\* C16: a failure of close() during eviction or during __unload is never
\* raised: the eviction still removes the entry and creates the new one,
\* __unload still closes every handle and cancels the active fetch.
C16_CloseSwallowed ==
    (ret.failed # {} /\ ret.failed # {ret.path}) =>
        /\ ret.raised # "OSError: close"
        /\ ret.op = "log" =>
              /\ ret.failed \cap TablePaths(handles) = {}
              /\ ret.raised = NoException => Has(handles, ret.path)
        /\ ret.op = "unload" =>
              /\ \A i \in 1..Len(handles) : ~handles[i].open
              /\ (fetch_handle # None /\ future[fetch_handle] = "pending")
                    => must_cancel[fetch_handle]

\* C17: when gethandle cannot create the directory or open the file, the
\* failure is raised to the caller of log and the table holds no entry for
\* the path; a backfill run that made the call ends Failed for the channel
\* it was fetching.
C17_OpenFailure ==
    ret.raised = "OSError: open" =>
        /\ ~Has(handles, ret.path)
        /\ \A r \in Runs :
              (pc[r] # "unused"
               /\ LogPath(task[r].channel, FetchSubfolder) = ret.path) =>
                 /\ pc[r] = "done"
                 /\ future[r] = "exception"
                 /\ events[r] # <<>>
                 /\ LET e == events[r][Len(events[r])]
                    IN  /\ e.status = EXCEPTION
                        /\ e.exception = "OSError: open"
                        /\ e.channel = task[r].channel

C17_Witness ==
    /\ ret.raised = "OSError: open"
    /\ \E r \in Runs :
          /\ future[r] = "exception"
          /\ written[r] # <<>>
          /\ events[r][Len(events[r])].exception = "OSError: open"

\* ---------------------------------------------------------- rotation
IsDigits(s) == \A i \in 1..Len(s) : \E k \in 1..Len(DigitChars) : DigitChars[k] = s[i]

\* the number a string of decimal digits denotes
RECURSIVE Value(_)
Value(s) ==
    IF s = <<>> THEN 0
    ELSE 10 * Value(SubSeq(s, 1, Len(s) - 1))
            + (IndexOf(DigitChars, s[Len(s)]) - 1)

DateNumber(t) == t.year * 10000 + t.month * 100 + t.day

\* the result is YYYYMMDD of the date followed by the period
StartsAt(out, date, period) ==
    /\ out.raised = NoException
    /\ Len(out.value) >= 13
    /\ IsDigits(SubSeq(out.value, 1, 8))
    /\ Value(SubSeq(out.value, 1, 8)) = DateNumber(date)
    /\ SubSeq(out.value, 9, 13) = period

\* the Monday on or before the day of t
MondayOf(t) ==
    LET d == t.day - weekday(t)
    IN  IF d >= 1 THEN [t EXCEPT !.day = d]
        ELSE IF t.month > 1
             THEN [t EXCEPT !.month = t.month - 1,
                            !.day = DaysInMonth(t.year, t.month - 1) + d]
             ELSE [t EXCEPT !.year = t.year - 1, !.month = MonthsPerYear,
                            !.day = 31 + d]

SameWeek(a, b) == toordinal(a) - weekday(a) = toordinal(b) - weekday(b)

\* C18: for the rotation code 'w' and every timestamp, also one whose
\* preceding Monday lies in the previous month or year, the result is the
\* date of the Monday on or before the timestamp as YYYYMMDD followed by
\* '--P7D', so two timestamps get the same prefix exactly when they lie in
\* the same Monday-to-Sunday week.
C18_WeeklyMonday ==
    (rot.called /\ rot.rotation_code = "w") =>
        /\ StartsAt(rot.out, MondayOf(rot.timestamp),
                    <<"-", "-", "P", "7", "D">>)
        /\ StartsAt(rot.out2, MondayOf(rot.other),
                    <<"-", "-", "P", "7", "D">>)
        /\ (SubSeq(rot.out.value, 1, 13) = SubSeq(rot.out2.value, 1, 13))
              <=> SameWeek(rot.timestamp, rot.other)

\* C19: for the codes 'd', 'm' and 'y' the result is YYYYMMDD of the same
\* day, of day 1 of the same month, of January 1 of the same year, followed
\* by '--P1D', '--P1M', '--P1Y'; with a base name it is that prefix, '_' and
\* the base name; with no rotation code the base name is returned as it is.
C19_Periods ==
    rot.called =>
        /\ rot.rotation_code = "" => rot.out = Returned(rot.filename)
        /\ rot.rotation_code \in {"d", "m", "y"} =>
             LET t == rot.timestamp
                 date == CASE rot.rotation_code = "d" -> t
                           [] rot.rotation_code = "m" -> [t EXCEPT !.day = 1]
                           [] rot.rotation_code = "y" ->
                                [t EXCEPT !.day = 1, !.month = 1]
                 unit == CASE rot.rotation_code = "d" -> "D"
                           [] rot.rotation_code = "m" -> "M"
                           [] rot.rotation_code = "y" -> "Y"
             IN  /\ StartsAt(rot.out, date, <<"-", "-", "P", "1", unit>>)
                 /\ rot.out.value =
                        IF rot.filename = <<>>
                        THEN SubSeq(rot.out.value, 1, 13)
                        ELSE SubSeq(rot.out.value, 1, 13) \o <<"_">>
                                \o rot.filename

C19_Witness ==
    /\ rot.called
    /\ rot.rotation_code = "m"
    /\ rot.timestamp.day > 1
    /\ rot.filename # <<>>
    /\ Len(rot.out.value) = 13 + 1 + Len(rot.filename)


\* ------------------------------------------------------------ attachments
HandlerStep(r) == pc[r] = "iter" /\ pc'[r] \in {"get", "post"}

\* C20: for any sequence or interleaving of message_handler invocations
\* that resolve to the same attachment file, the transfer is performed at
\* most once, and once the file exists an invocation performs no transfer
\* and raises no error.
C20_TransferOnce ==
    [][/\ \A i, j \in 1..Len(transfers') :
              transfers'[i] = transfers'[j] => i = j
       /\ \A r \in DOMAIN pc :
              (HandlerStep(r)
               /\ <<task[r].channel, Head(task[r].buffer)>> \in attFiles) =>
                 /\ transfers' = transfers
                 /\ pc'[r] = "post"]_vars

\* ------------------------------------------------------------------ C21
\* C21: in every reachable state, a file present under the final name of
\* an attachment holds a complete body that a download of that attachment
\* returned: never a partly written one and never a mix of two bodies, also
\* when a download failed, was cancelled, or two downloads overlapped.
C21_CompleteContent ==
    \A file \in attFiles :
        <<file, blocks[link[dl_path(file)]]>> \in received

\* ------------------------------------------------------------ C22, C23
\* where the first '.' of the file name stands
FirstDot(out) ==
    CHOOSE i \in 1..Len(out) :
        out[i] = Dot /\ \A j \in 1..(i - 1) : out[j] # Dot

\* the number of characters of the name kept in front of the '...' and
\* behind it, in a truncated file name
KeptPrefix == FirstDot(att.filename) - Len(att.aid) - 2
KeptSuffix == Len(att.filename) - FirstDot(att.filename) - 2

\* C22: when id + '_' + name is longer than 255 characters, the file name
\* has at most 255 characters, is id + '_' + a prefix of the name + '...'
\* + a suffix of the name, and the truncated flag is set; otherwise the
\* file name is id + '_' + name and the flag is not set.
C22_FileName ==
    att.called =>
        LET full == att.aid \o <<Underscore>> \o att.aname
            n == Len(att.aname)
        IN  IF Len(full) > MaxFileName
            THEN /\ att.truncated
                 /\ Len(att.filename) <= MaxFileName
                 /\ \E i \in 1..Len(att.filename) : att.filename[i] = Dot
                 /\ KeptPrefix \in 0..n
                 /\ KeptSuffix \in 0..n
                 /\ att.filename =
                       att.aid \o <<Underscore>>
                          \o SubSeq(att.aname, 1, KeptPrefix) \o Ellipsis
                          \o SubSeq(att.aname, n - KeptSuffix + 1, n)
            ELSE /\ ~att.truncated
                 /\ att.filename = full

C22_Witness ==
    /\ att.called
    /\ att.truncated
    /\ Len(att.aid) = 2
    /\ Len(att.aname) = MaxFileName + 1
    /\ Len(att.filename) = MaxFileName

\* C23: in a truncated file name the kept prefix and the kept suffix of
\* the name differ in length by at most one, and when their total is odd
\* the prefix is the longer one.
C23_LeftFavoured ==
    (att.called /\ att.truncated) =>
        /\ KeptPrefix - KeptSuffix \in {0, 1}
        /\ (KeptPrefix + KeptSuffix) % 2 = 1 => KeptPrefix = KeptSuffix + 1

\* ------------------------------------------------------------ C24, C25
\* a step of a log call under SpecGate: every step but __unload
GateStep == lock' = lock

\* the global override is enabled, force is set or should_log approves
Approved ==
    \/ settings.everything = "on"
    \/ event'.force
    \/ should_log(settings, event'.location)

\* the step appended one line to the file named by ret
Appended ==
    /\ issued' # issued
    /\ ret'.raised = NoException
    /\ ret'.path \in DOMAIN files'
    /\ files'[ret'.path].lines =
          (IF ret'.path \in DOMAIN files THEN files[ret'.path].lines
                                         ELSE <<>>) \o <<ret'.line>>

Count(seq, c) == Cardinality({ i \in 1..Len(seq) : seq[i] = c })

\* out is text with a backslash and an 'n' in the place of every newline
RECURSIVE Shows(_, _)
Shows(out, text) ==
    IF text = <<>> THEN out = <<>>
    ELSE IF Head(text) = Newline
    THEN /\ Len(out) >= 2
         /\ out[1] = Backslash
         /\ out[2] = "n"
         /\ Shows(SubSeq(out, 3, Len(out)), Tail(text))
    ELSE /\ out # <<>>
         /\ out[1] = Head(text)
         /\ Shows(Tail(out), Tail(text))

\* C25: the text a log call hands to the file holds exactly one newline,
\* as its last character, and ends with the message text in which every
\* newline stands as a backslash and an 'n'; a successful log call appends
\* one line to one file and leaves every other file as it was.
C25_OneLine ==
    /\ [](event.entry # <<>> =>
            /\ Count(event.entry, Newline) = 1
            /\ event.entry[Len(event.entry)] = Newline
            /\ \E k \in 0..(Len(event.entry) - 1) :
                  Shows(SubSeq(event.entry, k + 1, Len(event.entry) - 1),
                        event.text))
    /\ [][(GateStep /\ issued' # issued /\ ret'.raised = NoException) =>
            /\ Appended
            /\ \A p \in DOMAIN files' \ {ret'.path} :
                  p \in DOMAIN files /\ files'[p] = files[p]]_vars

C25_Witness ==
    /\ ret.op = "log"
    /\ ret.raised = NoException
    /\ Count(event.text, Newline) = 2
    /\ Count(event.entry, Newline) = 1
    /\ files[ret.path].lines = <<ret.line>>

\* ------------------------------------------------------------------ C27
\* C27: the k-th Fetching event of a channel, reported when k messages of
\* the channel have been passed to the log writer, carries the count k.
C27_FetchingCount ==
    \A r \in Runs : \A c \in Visited(r) :
        \A k \in 1..Len(Fetched(r, c)) :
            /\ Len(Logged(r, c)) >= k
            /\ Fetched(r, c)[k].count = k

\* ------------------------------------------------------------------ C28
\* C28: no log call writes through a handle that is closed: a call that
\* gets a handle gets an open one, which is in the table; and once __unload
\* has set the lock, no call reaches gethandle and no file gets a line.
C28_NoClosedWrite ==
    /\ [](ret.op = "log" =>
            /\ ret.raised # "ValueError: I/O operation on closed file"
            /\ ret.raised = NoException =>
                  /\ Has(handles, ret.path)
                  /\ handles[At(handles, ret.path)].open)
    /\ [][lock => /\ issued' = issued
                   /\ \A p \in DOMAIN files' :
                         p \in DOMAIN files
                            /\ files'[p].lines = files[p].lines]_vars

\* ------------------------------------------------------------------ C26
\* the run has ended and every channel is Completed, or it was cancelled,
\* or it failed
Ended(r) ==
    /\ pc[r] = "done"
    /\ \/ task[r].completed_channels = task[r].channels
       \/ future[r] \in {"cancelled", "exception"}
       \/ /\ events[r] # <<>>
          /\ events[r][Len(events[r])].status \in {CANCELLED, EXCEPTION}

\* C26: with a finite history and every request answered in the end, a run
\* that was started ends: all its channels Completed, or Cancelled, or
\* Failed.
C26_Terminates == \A r \in Runs : (pc[r] = "new") ~> Ended(r)

C26_Witness ==
    \E r \in Runs :
        /\ Ended(r)
        /\ Len(task[r].channels) = Len(ServerChannels)
        /\ task[r].completed_channels = task[r].channels
        /\ \E c \in Channels : Len(RequestsFor(r, c)) >= 3

\* ------------------------------------------------------------------ C29
\* the run has ended and each of its edit tasks has finished
EditsFinished(r) ==
    /\ pc[r] = "done"
    /\ Len(etask[r]) = Len(edits[r])
    /\ \A k \in 1..Len(etask[r]) : etask[r][k].pc = "done"

\* C29: once all edit tasks of a run have finished, cookie.status_msg
\* points to a message that shows the last composed status text, unless
\* that message was deleted after the last edit.
C29_LastEditShown ==
    \A r \in Runs :
        (EditsFinished(r) /\ edits[r] # <<>>
            /\ ~shown[status_msg[r]].deleted) =>
                shown[status_msg[r]].content =
                    [run |-> r, edit |-> Len(edits[r])]

====
